---- MODULE Spec2Model ----
(***************************************************************************)
(* RadLocal: the alert dispatcher (audio_engine.py), the jump bridge store  *)
(* (logistics.py), the topology mapper (cartographer.py), the threat        *)
(* profiler (threat_profiler.py), the line parser (intel_parser.py) and the *)
(* log tailer (intel_tailer.py).                                            *)
(***************************************************************************)
EXTENDS Integers, Sequences, FiniteSets, TLC

(* ------------------------------ bounds --------------------------------- *)
\* clock ticks per second: time.time() is a float, int() truncates it
Res == 2
\* number of calls of one run that get past the cooldown filter
MaxAlerts == 2
\* producer threads of the concurrent specification
NumProducers == 2
\* get_local_map passes in one run
MaxPasses == 1
\* largest radius asked of get_local_map
MaxRadius == 2
\* profile_player calls in one run
MaxProfiles == 2
\* tokens in a message handed to parse_line
MaxTokens == 2
\* lines in one chat log file
MaxLines == 2
\* vessel types in the shipType list of the combat statistics
MaxShips == 4
MaxChars == 4

(* --------------------------- program constants -------------------------- *)
COOLDOWN_SECONDS == 30
\* first hop distance that is out of range
RANGE_LIMIT == 10
\* wall clock (seconds since the epoch) when the dispatcher is constructed
EpochStart == 1000

(* ------------------------------ inputs ---------------------------------- *)
Keys == {"Deklein", "VFK-IV"}
HopInputs == {-1, 0, 1, 4, 5, 9, 10}
\* hop distances offered to the concurrent producers: one per outcome
ConcHopInputs == {0, 9, 10}
\* hop distances offered when speech may fail: two that are announced
PlayHopInputs == {0, 9}
Producers == 1..NumProducers
\* clock readings offered to the run, in ticks after EpochStart
TickOffsets == {0, 1, COOLDOWN_SECONDS * Res - 1, COOLDOWN_SECONDS * Res,
                (COOLDOWN_SECONDS + 1) * Res}
Times == {EpochStart * Res + d : d \in TickOffsets}

NoArgs == [system |-> "", jumps |-> 0, friendly |-> FALSE]
NoAlert == [level |-> "NONE", system |-> "", jumps |-> 0]

VARIABLES
  \* AudioManager fields
  message_queue, is_playing, cooldown_cache,
  \* the wall clock, in ticks
  now,
  \* process_threat: position and locals of each producer thread
  ppc, args, current_time, last_played,
  \* _audio_worker: position and local
  wpc, alert,
  \* history: real time of each call's clock reading, real time of the last
  \* accepted alert of each key, instructions enqueued and played
  \* and how the latest finished call ended
  tick, lastAcceptTick, enqueued, played, last_outcome,
  \* number of calls that got past the cooldown filter
  passed,
  \* history: the positions in played of the instructions whose _speak raised
  speak_errors

VARIABLES
  \* JumpBridgeManager: the store and its JSON file
  bridges, jb_file,
  \* history: the latest add_bridge / remove_bridge call
  last_op,
  \* the exception that the latest store operation let out to its caller
  store_error

bridgeVars == <<bridges, jb_file, last_op, store_error>>

VARIABLES
  \* the remote universe: what ESI answers for each system id
  universe,
  \* Cartographer fields: jump_bridge_manager is set, the node cache, its file
  has_manager, system_cache, cache_file,
  \* get_local_map: position, arguments and locals
  cpc, center, max_jumps, local_map, queue, visited, cache_updated, center_pos,
  \* what the pass returned to its caller; empty while a pass runs
  result,
  \* history of the current pass: ids whose fetch failed, ids whose fetch
  \* succeeded, how often each id was put on the frontier, writes of the cache
  \* file; and the number of passes started
  failed, fetched, enq_count, writes, passes,
  \* _save_cache in progress: the size of the cache when json.dump began to
  \* iterate it, and whether the text in the cache file is a whole document
  save_size, file_whole,
  \* the ids of the map entries whose jump_bridges list is the list object
  \* that the manager keeps for that system
  shared

cartoVars == <<universe, has_manager, system_cache, cache_file, cpc, center,
               max_jumps, local_map, queue, visited, cache_updated, center_pos,
               result, failed, fetched, enq_count, writes, passes,
               save_size, file_whole, shared>>

audioVars == <<message_queue, is_playing, cooldown_cache, now, ppc, args,
               current_time, last_played, wpc, alert, tick, lastAcceptTick,
               enqueued, played, last_outcome, passed, speak_errors>>

VARIABLES
  \* ThreatProfiler fields: my_alliance_id (0 for None), the cache, its file
  my_alliance_id, tp_cache, tp_file,
  \* the wall clock of the profiler, in seconds
  tp_now,
  \* history: the latest profile_player call (argument, label returned,
  \* collaborators invoked in order, clock), the label each actor got from
  \* the resolution pipeline and when, and the number of calls so far
  tp_last, tp_given, tp_count

profVars == <<my_alliance_id, tp_cache, tp_file, tp_now, tp_last, tp_given,
              tp_count>>

VARIABLES
  \* IntelParser field, lower-cased
  known_systems,
  \* parse_line: position, argument and returned record
  ps_pc, raw_line, record

parseVars == <<known_systems, ps_pc, raw_line, record>>

VARIABLES
  \* the log directory: lines in each file, the files that exist, and the
  \* existing files from the least to the most recently modified
  tl_files, tl_exists, tl_mtimes,
  \* IntelTailer field, and the insertion order of its keys
  active_log_files, active_order,
  \* watch: position, the exception that ended it, and its local
  tl_pc, tl_error, loop_counter,
  \* history: <<channel, path, line number>> of the lines handed to
  \* _process_new_line, the length of each file when it was last opened,
  \* the number of file objects that are open, and the channels whose
  \* latest open failed
  delivered, tl_seen, tl_opens, tl_failed,
  \* one log file character by character: the text written to it so far, the
  \* offset in it of the file object that was opened when it was empty, and
  \* history: the strings handed to _process_new_line for it
  log_text, read_pos, handled,
  \* history: the iterations of the tailing loop that have ended since the
  \* latest discovery pass, counted up to REFRESH_EVERY
  stale_polls

lineVars == <<log_text, read_pos, handled>>

tailVars == <<tl_files, tl_exists, tl_mtimes, active_log_files, active_order,
              tl_pc, tl_error, loop_counter, delivered, tl_seen, tl_opens,
              tl_failed, lineVars, stale_polls>>

\* the subsystems beside the dispatcher, the bridge store and the mapper
restVars == <<profVars, parseVars, tailVars>>

(* ------------------------------ helpers --------------------------------- *)
\* dict.get(key, default)
Get(d, k, default) == IF k \in DOMAIN d THEN d[k] ELSE default

\* d[k] = v
Put(d, k, v) == [x \in DOMAIN d \cup {k} |-> IF x = k THEN v ELSE d[x]]

\* int(time.time()): whole seconds of a clock reading in ticks
IntTime(t) == t \div Res

\* the tiers with the High/Low border one hop too low
ClassifyShifted(jumps) ==
  IF jumps = 0 THEN "CRITICAL"
  ELSE IF 1 <= jumps /\ jumps < 4 THEN "HIGH"
  ELSE IF 4 <= jumps /\ jumps <= 9 THEN "LOW"
  ELSE "NONE"

\* process_threat, lines 54-59: the tier of a hop distance, NONE when no
\* branch matches
Classify(jumps) ==
  IF jumps = 0 THEN "CRITICAL"
  ELSE IF 1 <= jumps /\ jumps <= 4 THEN "HIGH"
  ELSE IF 5 <= jumps /\ jumps <= 9 THEN "LOW"
  ELSE "NONE"

\* process_threat, line 47: the call is inside the cooldown window
InCooldown(ct, lp) == (ct - lp) < COOLDOWN_SECONDS

\* the range filter without the friendly filter
FilteredRangeOnly(a) == a.jumps >= RANGE_LIMIT

\* process_threat, lines 36-41: friendly and range filters
Filtered(a) == a.friendly \/ a.jumps >= RANGE_LIMIT

\* deque.pop(): the newest element and the rest
PopRight(q) == [item |-> q[Len(q)], rest |-> SubSeq(q, 1, Len(q) - 1)]

\* deque.popleft(): the oldest element and the rest
PopLeft(q) == [item |-> Head(q), rest |-> Tail(q)]

\* an assignment in place of the append: the pending instructions are lost
QueueReplace(q, x) == <<x>>

\* deque.append(x)
QueueAppend(q, x) == Append(q, x)

(* ---------------------------- JumpBridgeManager ------------------------- *)
\* system ids reach the manager as ints or as numeric strings
BridgeNodes == {1, 2, 3}
IdInputs == {<<"int", n>> : n \in BridgeNodes} \cup {<<"str", n>> : n \in BridgeNodes}

\* int(x) of an int or of a numeric string
ToInt(x) == x[2]

\* str(n): the JSON form of a dictionary key
Str(n) == <<"str", n>>

\* x in list
Contains(list, x) == \E i \in DOMAIN list : list[i] = x

\* list.remove(x): the list without the first x
RECURSIVE ListRemove(_, _)
ListRemove(list, x) ==
  IF list = <<>> THEN <<>>
  ELSE IF Head(list) = x THEN Tail(list)
  ELSE <<Head(list)>> \o ListRemove(Tail(list), x)

\* _save: json.dump turns the int keys into strings
SaveBridges(b) == [k \in {Str(n) : n \in DOMAIN b} |-> b[ToInt(k)]]

\* _load: the keys of the file become ints again; no file gives {}
LoadBridges(f) == [n \in {ToInt(k) : k \in DOMAIN f} |-> f[Str(n)]]

\* add_bridge, lines 39-51: the store after add_bridge(a, b)
AddBridgeTo(b, ra, rb) ==
  LET a == ToInt(ra)
      c == ToInt(rb)
      b1 == IF a \notin DOMAIN b THEN Put(b, a, <<>>) ELSE b
      b2 == IF c \notin DOMAIN b1 THEN Put(b1, c, <<>>) ELSE b1
      b3 == IF ~Contains(b2[a], c) THEN [b2 EXCEPT ![a] = Append(@, c)] ELSE b2
      b4 == IF ~Contains(b3[c], a) THEN [b3 EXCEPT ![c] = Append(@, a)] ELSE b3
  IN b4

\* a removal that forgets the reverse direction
RemoveOneWay(b, ra, rb) ==
  LET a == ToInt(ra)
      c == ToInt(rb)
  IN IF a \in DOMAIN b /\ Contains(b[a], c)
     THEN [b EXCEPT ![a] = ListRemove(@, c)] ELSE b

\* remove_bridge, lines 60-70: the store after remove_bridge(a, b)
RemoveBridgeFrom(b, ra, rb) ==
  LET a == ToInt(ra)
      c == ToInt(rb)
      b1 == IF a \in DOMAIN b /\ Contains(b[a], c)
            THEN [b EXCEPT ![a] = ListRemove(@, c)] ELSE b
      b2 == IF c \in DOMAIN b1 /\ Contains(b1[c], a)
            THEN [b1 EXCEPT ![c] = ListRemove(@, a)] ELSE b1
  IN b2

\* a lookup under the str key of the file, which the int-keyed store never
\* holds
GetBridgesStrKey(b, rid) == <<>>

\* get_bridges, lines 82-83
GetBridges(b, rid) == Get(b, ToInt(rid), <<>>)

\* __init__ of a manager whose storage file does not exist yet
InitBridge ==
  /\ jb_file = <<>>
  /\ bridges = LoadBridges(jb_file)
  /\ last_op = [op |-> "none", a |-> <<"int", 1>>, b |-> <<"int", 1>>]
  /\ store_error = "none"

\* add_bridge(a, b), with its _save
AddBridge(ra, rb) ==
  /\ bridges' = AddBridgeTo(bridges, ra, rb)
  /\ jb_file' = SaveBridges(bridges')
  /\ last_op' = [op |-> "add", a |-> ra, b |-> rb]
  /\ store_error' = "none"
  /\ UNCHANGED <<audioVars, cartoVars, restVars>>

\* remove_bridge(a, b); _save runs only when something was removed
RemoveBridge(ra, rb) ==
  /\ bridges' = RemoveBridgeFrom(bridges, ra, rb)
  /\ jb_file' = IF bridges' # bridges THEN SaveBridges(bridges') ELSE jb_file
  /\ last_op' = [op |-> "remove", a |-> ra, b |-> rb]
  /\ store_error' = "none"
  /\ UNCHANGED <<audioVars, cartoVars, restVars>>

\* add_bridge(a, b) when the storage file cannot be opened for writing: the
\* lists are changed, then open() in _save, line 32, raises OSError, which
\* neither _save nor add_bridge catches
AddBridgeUnwritable(ra, rb) ==
  /\ bridges' = AddBridgeTo(bridges, ra, rb)
  /\ last_op' = [op |-> "add", a |-> ra, b |-> rb]
  /\ store_error' = "OSError"
  /\ UNCHANGED jb_file
  /\ UNCHANGED <<audioVars, cartoVars, restVars>>

\* remove_bridge(a, b) when the storage file cannot be opened for writing;
\* _save is tried only when something was removed
RemoveBridgeUnwritable(ra, rb) ==
  /\ bridges' = RemoveBridgeFrom(bridges, ra, rb)
  /\ last_op' = [op |-> "remove", a |-> ra, b |-> rb]
  /\ store_error' = IF bridges' # bridges THEN "OSError" ELSE "none"
  /\ UNCHANGED jb_file
  /\ UNCHANGED <<audioVars, cartoVars, restVars>>

\* a new session: a new manager loads the file
ReloadBridges ==
  /\ last_op.op # "load"
  /\ bridges' = LoadBridges(jb_file)
  /\ last_op' = [op |-> "load", a |-> <<"int", 1>>, b |-> <<"int", 1>>]
  /\ store_error' = "none"
  /\ UNCHANGED jb_file
  /\ UNCHANGED <<audioVars, cartoVars, restVars>>

\* a new session whose manager cannot read the file: _load, lines 12-28,
\* catches the exception, prints it and starts from an empty store
ReloadUnreadable ==
  /\ last_op.op # "load"
  /\ jb_file # <<>>
  /\ bridges' = <<>>
  /\ last_op' = [op |-> "load", a |-> <<"int", 1>>, b |-> <<"int", 1>>]
  /\ store_error' = "none"
  /\ UNCHANGED jb_file
  /\ UNCHANGED <<audioVars, cartoVars, restVars>>

(* ------------------------------ Cartographer ---------------------------- *)
Nodes == {1, 2, 3, 4}

\* a system as ESI describes it; positions are in units of SCALE_FACTOR
Sys(n, gates) == [name |-> n, x |-> n, z |-> 2 * n, stargates |-> gates]

\* a chain, a triangle with a tail, and a diamond
Universes ==
  { [n \in Nodes |-> Sys(n, CASE n = 1 -> <<2>> [] n = 2 -> <<1, 3>>
                              [] n = 3 -> <<2, 4>> [] n = 4 -> <<3>>)],
    [n \in Nodes |-> Sys(n, CASE n = 1 -> <<2, 3>> [] n = 2 -> <<1, 3>>
                              [] n = 3 -> <<1, 2, 4>> [] n = 4 -> <<3>>)],
    [n \in Nodes |-> Sys(n, CASE n = 1 -> <<2, 3>> [] n = 2 -> <<1, 4>>
                              [] n = 3 -> <<1, 4>> [] n = 4 -> <<2, 3>>)] }

IntId(n) == <<"int", n>>

\* bridge files left by earlier sessions: a shortcut; a bridge that doubles a
\* stargate, a shortcut and a bridge from a system to itself
SavedBridgeFiles ==
  { SaveBridges(AddBridgeTo(<<>>, IntId(1), IntId(4))),
    SaveBridges(AddBridgeTo(AddBridgeTo(AddBridgeTo(<<>>, IntId(1), IntId(2)),
                                        IntId(2), IntId(4)), IntId(3), IntId(3))) }

\* _fetch_system_data returned None
NoData == [id |-> -1, name |-> -1, x |-> 0, z |-> 0, connections |-> <<>>]

\* the sublists of a list, order kept
RECURSIVE SubSeqs(_)
SubSeqs(list) ==
  IF list = <<>> THEN {<<>>}
  ELSE LET rest == SubSeqs(Tail(list))
       IN rest \cup {<<Head(list)>> \o r : r \in rest}

\* the elements of a list
Elems(list) == {list[i] : i \in DOMAIN list}

\* the orders in which a set can be iterated
Orders(S) == {f \in [1..Cardinality(S) -> S] : \A i, j \in DOMAIN f : f[i] = f[j] => i = j}

\* _fetch_system_data, lines 41-83: what a call may return. A cached id gives
\* its entry; otherwise the system request may fail (None), and each stargate
\* request that does not answer 200 leaves its destination out
FetchResults(cache, u, id) ==
  IF Str(id) \in DOMAIN cache THEN {cache[Str(id)]}
  ELSE {NoData} \cup
       {[id |-> id, name |-> u[id].name, x |-> u[id].x, z |-> u[id].z,
         connections |-> c] : c \in SubSeqs(u[id].stargates)}

\* a cache that holds the latest entry only
CacheReplaced(cache, id, r) ==
  IF r = NoData \/ Str(id) \in DOMAIN cache THEN cache ELSE Put(<<>>, Str(id), r)

\* _fetch_system_data, line 78: the cache after a call that returned r
CacheAfter(cache, id, r) ==
  IF r = NoData \/ Str(id) \in DOMAIN cache THEN cache ELSE Put(cache, Str(id), r)

\* an expansion that goes one hop too far
ExpandsLeq(d, n) == d <= n

\* get_local_map, line 141: the frontier is expanded from distance d
Expands(d, n) == d < n

\* neighbours enqueued without a look at the visited set
UnvisitedAll(nbrs, vis) == nbrs

\* get_local_map, line 143: the neighbours still to be enqueued
Unvisited(nbrs, vis) == nbrs \ vis

\* a failed fetch that ends the search (break)
FrontierCleared(q) == <<>>

\* get_local_map, line 112: the frontier after a failed fetch (continue)
FrontierAfterFailure(q) == q

\* Cartographer.__init__ without a cache file; no pass is running
CartoFields ==
  /\ system_cache = <<>>
  /\ cache_file = <<>>
  /\ cpc = "idle"
  /\ center = 1
  /\ max_jumps = 0
  /\ local_map = <<>>
  /\ queue = <<>>
  /\ visited = {}
  /\ cache_updated = FALSE
  /\ center_pos = <<0, 0>>
  /\ result = <<>>
  /\ failed = {}
  /\ fetched = {}
  /\ enq_count = [n \in Nodes |-> 0]
  /\ writes = 0
  /\ passes = 0
  /\ save_size = 0
  /\ file_whole = TRUE
  /\ shared = {}

\* get_local_map, lines 90-105: the locals and the fetch of the center
StartPass(c, n) ==
  /\ cpc = "idle"
  /\ passes < MaxPasses
  /\ passes' = passes + 1
  /\ center' = c
  /\ max_jumps' = n
  /\ local_map' = <<>>
  /\ queue' = <<<<c, 0>>>>
  /\ visited' = {c}
  /\ enq_count' = [m \in Nodes |-> IF m = c THEN 1 ELSE 0]
  /\ cache_updated' = FALSE
  /\ writes' = 0
  /\ \E r \in FetchResults(system_cache, universe, c) :
       /\ system_cache' = CacheAfter(system_cache, c, r)
       /\ IF r = NoData
          THEN /\ failed' = {c}
               /\ fetched' = {}
               /\ result' = <<>>
               /\ cpc' = "idle"
               /\ center_pos' = <<0, 0>>
          ELSE /\ failed' = {}
               /\ fetched' = {c}
               /\ center_pos' = <<r.x, r.z>>
               /\ cpc' = "loop"
               /\ result' = <<>>
  /\ shared' = {}
  /\ UNCHANGED <<universe, has_manager, cache_file, save_size, file_whole>>
  /\ UNCHANGED bridgeVars
  /\ UNCHANGED <<audioVars, restVars>>

\* get_local_map, lines 108 and 145: popleft at the head of the deque,
\* append at its end
Behind(rest, found) == rest \o found

\* a neighbour put on the frontier at the distance of the system that
\* lists it
SameHop(dist) == dist

\* get_local_map, line 145: a neighbour is one hop farther than the system
\* that lists it
NextHop(dist) == dist + 1

\* get_local_map, lines 121-123 and 135, with get_bridges, line 83:
\* bridges.get(system_id, []) returns the manager's own list when the system
\* is a key of the store, and that object is what the map entry keeps
SharedAfter(sh, manager, b, cur) ==
  IF manager /\ cur \in DOMAIN b THEN sh \cup {cur} ELSE sh \ {cur}

\* get_local_map, lines 107-145: one iteration of the search loop
LoopStep ==
  /\ cpc = "loop"
  /\ queue # <<>>
  /\ LET cur == Head(queue)[1]
         dist == Head(queue)[2]
     IN \E r \in FetchResults(system_cache, universe, cur) :
          /\ system_cache' = CacheAfter(system_cache, cur, r)
          /\ IF r = NoData
             THEN /\ failed' = failed \cup {cur}
                  /\ queue' = FrontierAfterFailure(Tail(queue))
                  /\ UNCHANGED <<local_map, visited, cache_updated, fetched, enq_count,
                                 shared>>
             ELSE LET stargate_neighbors == r.connections
                      jump_bridges == IF has_manager
                                      THEN GetBridges(bridges, IntId(cur)) ELSE <<>>
                      all_neighbors == Elems(stargate_neighbors \o jump_bridges)
                      new == IF Expands(dist, max_jumps)
                             THEN Unvisited(all_neighbors, visited) ELSE {}
                  IN /\ fetched' = fetched \cup {cur}
                     /\ shared' = SharedAfter(shared, has_manager, bridges, cur)
                     /\ cache_updated' = TRUE
                     /\ local_map' = Put(local_map, cur,
                            [name |-> r.name, jumps |-> dist,
                             x_rel |-> r.x - center_pos[1],
                             z_rel |-> r.z - center_pos[2],
                             stargates |-> stargate_neighbors,
                             jump_bridges |-> jump_bridges])
                     /\ visited' = visited \cup new
                     /\ enq_count' = [m \in Nodes |->
                                        IF m \in new THEN enq_count[m] + 1 ELSE enq_count[m]]
                     /\ \E order \in Orders(new) :
                          queue' = Behind(Tail(queue),
                                     [i \in DOMAIN order |-> <<order[i], NextHop(dist)>>])
                     /\ UNCHANGED failed
  /\ UNCHANGED <<universe, has_manager, cache_file, cpc, center, max_jumps,
                 center_pos, result, writes, passes, save_size, file_whole>>
  /\ UNCHANGED bridgeVars
  /\ UNCHANGED <<audioVars, restVars>>

\* get_local_map, lines 147-151: save the cache and return the map
\* a pass that leaves the cache file as it found it
NeverSaved(updated, cache, file) == file

\* get_local_map, lines 147-148, and _save_cache: the cache file after the
\* search loop
SavedAtEnd(updated, cache, file) == IF updated THEN cache ELSE file

EndPass ==
  /\ cpc = "loop"
  /\ queue = <<>>
  /\ cache_file' = SavedAtEnd(cache_updated, system_cache, cache_file)
  /\ writes' = IF cache_updated THEN writes + 1 ELSE writes
  /\ result' = local_map
  /\ cpc' = "idle"
  /\ UNCHANGED <<universe, has_manager, system_cache, center, max_jumps,
                 local_map, queue, visited, cache_updated, center_pos, failed,
                 fetched, enq_count, passes, save_size, file_whole, shared>>
  /\ UNCHANGED bridgeVars
  /\ UNCHANGED <<audioVars, restVars>>

NextCarto ==
  \/ \E c \in Nodes, n \in 0..MaxRadius : StartPass(c, n)
  \/ LoopStep
  \/ EndPass

(* ------------------------------ AudioManager ---------------------------- *)
InitAudio ==
  /\ message_queue = <<>>
  /\ is_playing = FALSE
  /\ cooldown_cache = <<>>
  /\ now = EpochStart * Res
  /\ ppc = [p \in Producers |-> "idle"]
  /\ args = [p \in Producers |-> NoArgs]
  /\ current_time = [p \in Producers |-> 0]
  /\ last_played = [p \in Producers |-> 0]
  /\ wpc = "poll"
  /\ alert = NoAlert
  /\ tick = [p \in Producers |-> 0]
  /\ lastAcceptTick = [k \in Keys |-> -1]
  /\ enqueued = <<>>
  /\ played = <<>>
  /\ last_outcome = "none"
  /\ passed = 0
  /\ speak_errors = {}

\* the wall clock moves on
Tick ==
  /\ \E t \in Times : t > now /\ now' = t
  /\ UNCHANGED <<message_queue, is_playing, cooldown_cache, ppc, args,
                 current_time, last_played, wpc, alert,
                 tick, lastAcceptTick, enqueued, played, last_outcome>>
  /\ UNCHANGED <<bridgeVars, cartoVars, restVars>>
  /\ UNCHANGED <<passed, speak_errors>>

\* calls in flight that have not reached the cooldown filter yet
InFlight == Cardinality({q \in Producers : ppc[q] \in {"L36", "L45", "L47"}})

\* process_threat, line 31: a producer thread enters with its arguments
Call(p, sys, j, f) ==
  /\ ppc[p] = "idle"
  /\ passed + InFlight < MaxAlerts
  /\ ppc' = [ppc EXCEPT ![p] = "L36"]
  /\ args' = [args EXCEPT ![p] = [system |-> sys, jumps |-> j, friendly |-> f]]
  /\ UNCHANGED <<message_queue, is_playing, cooldown_cache, now, current_time,
                 last_played, wpc, alert, tick, lastAcceptTick, enqueued, played,
                 last_outcome>>
  /\ UNCHANGED <<bridgeVars, cartoVars, restVars>>
  /\ UNCHANGED <<passed, speak_errors>>

\* process_threat, lines 36-44: friendly filter, range filter, clock reading
Filter(p) ==
  /\ ppc[p] = "L36"
  /\ IF Filtered(args[p])
     THEN /\ ppc' = [ppc EXCEPT ![p] = "idle"]
          /\ args' = [args EXCEPT ![p] = NoArgs]
          /\ last_outcome' = "filtered"
          /\ UNCHANGED <<current_time, tick>>
     ELSE /\ ppc' = [ppc EXCEPT ![p] = "L45"]
          /\ current_time' = [current_time EXCEPT ![p] = IntTime(now)]
          /\ tick' = [tick EXCEPT ![p] = now]
          /\ UNCHANGED <<args, last_outcome>>
  /\ UNCHANGED <<message_queue, is_playing, cooldown_cache, now, last_played,
                 wpc, alert, lastAcceptTick, enqueued, played>>
  /\ UNCHANGED <<bridgeVars, cartoVars, restVars>>
  /\ UNCHANGED <<passed, speak_errors>>

\* process_threat, line 45: read the cooldown entry
ReadCache(p) ==
  /\ ppc[p] = "L45"
  /\ last_played' = [last_played EXCEPT ![p] = Get(cooldown_cache, args[p].system, 0)]
  /\ ppc' = [ppc EXCEPT ![p] = "L47"]
  /\ UNCHANGED <<message_queue, is_playing, cooldown_cache, now, args,
                 current_time, wpc, alert, tick,
                 lastAcceptTick, enqueued, played, last_outcome>>
  /\ UNCHANGED <<bridgeVars, cartoVars, restVars>>
  /\ UNCHANGED <<passed, speak_errors>>

\* a cooldown entry written only for a hop distance that has a tier
TouchedIfClassified(cache, a, ct) ==
  IF Classify(a.jumps) = "NONE" THEN cache ELSE Put(cache, a.system, ct)

\* process_threat, line 51: the cooldown entry of the key is set to the
\* clock reading of the call, whatever the hop distance
Touched(cache, a, ct) == Put(cache, a.system, ct)

\* a rejected call that restarts the window of its key
Restarted(cache, a, ct) == Put(cache, a.system, ct)

\* process_threat, lines 47-48: the return of a call inside the window
\* leaves the cooldown entries as they are
AfterDrop(cache, a, ct) == cache

\* process_threat, lines 47-51: cooldown filter, then the cache update
CheckUpdate(p) ==
  /\ ppc[p] = "L47"
  /\ IF InCooldown(current_time[p], last_played[p])
     THEN /\ ppc' = [ppc EXCEPT ![p] = "idle"]
          /\ args' = [args EXCEPT ![p] = NoArgs]
          /\ current_time' = [current_time EXCEPT ![p] = 0]
          /\ tick' = [tick EXCEPT ![p] = 0]
          /\ last_outcome' = "cooldown"
          /\ cooldown_cache' = AfterDrop(cooldown_cache, args[p], current_time[p])
          /\ UNCHANGED <<lastAcceptTick, passed>>
     ELSE /\ cooldown_cache' = Touched(cooldown_cache, args[p], current_time[p])
          /\ lastAcceptTick' = [lastAcceptTick EXCEPT ![args[p].system] = tick[p]]
          /\ ppc' = [ppc EXCEPT ![p] = "L54"]
          /\ passed' = passed + 1
          /\ UNCHANGED <<args, current_time, tick, last_outcome>>
  /\ last_played' = [last_played EXCEPT ![p] = 0]
  /\ UNCHANGED speak_errors
  /\ UNCHANGED <<message_queue, is_playing, now, wpc, alert,
                 enqueued, played>>
  /\ UNCHANGED <<bridgeVars, cartoVars, restVars>>

\* process_threat, lines 54-59 and _queue_alert: classify and append
Enqueue(p) ==
  /\ ppc[p] = "L54"
  /\ LET lvl == Classify(args[p].jumps)
         ins == [level |-> lvl, system |-> args[p].system, jumps |-> args[p].jumps]
     IN IF lvl = "NONE"
        THEN /\ last_outcome' = "unclassified"
             /\ UNCHANGED <<message_queue, enqueued>>
        ELSE /\ last_outcome' = "queued"
             /\ message_queue' = QueueAppend(message_queue, ins)
             /\ enqueued' = Append(enqueued, [ins |-> ins, stamp |-> current_time[p],
                                               tick |-> tick[p]])
  /\ ppc' = [ppc EXCEPT ![p] = "idle"]
  /\ args' = [args EXCEPT ![p] = NoArgs]
  /\ current_time' = [current_time EXCEPT ![p] = 0]
  /\ tick' = [tick EXCEPT ![p] = 0]
  /\ UNCHANGED <<is_playing, cooldown_cache, now, last_played, wpc, alert,
                 lastAcceptTick, played>>
  /\ UNCHANGED <<bridgeVars, cartoVars, restVars>>
  /\ UNCHANGED <<passed, speak_errors>>

\* _audio_worker, lines 72-74: take the oldest instruction
WorkerPop ==
  /\ wpc = "poll"
  /\ message_queue # <<>>
  /\ alert' = PopLeft(message_queue).item
  /\ message_queue' = PopLeft(message_queue).rest
  /\ is_playing' = TRUE
  /\ wpc' = "play"
  /\ UNCHANGED <<cooldown_cache, now, ppc, args, current_time, last_played,
                 tick, lastAcceptTick, enqueued, played, last_outcome>>
  /\ UNCHANGED <<bridgeVars, cartoVars, restVars>>
  /\ UNCHANGED <<passed, speak_errors>>

\* a worker whose _play_alert lets the exception of _speak through
AfterSpeakUncaught(raises) == IF raises THEN "dead" ELSE "poll"

\* _play_alert, lines 89-104: whatever _speak raises is caught and printed,
\* and _audio_worker goes on with line 76
AfterSpeak(raises) == "poll"

\* _audio_worker, lines 75-79: _play_alert(alert), then back to polling;
\* raises tells whether _speak raised
Play(raises) ==
  /\ wpc = "play"
  /\ played' = Append(played, alert)
  /\ speak_errors' = IF raises THEN speak_errors \cup {Len(played) + 1}
                     ELSE speak_errors
  /\ wpc' = AfterSpeak(raises)
  /\ is_playing' = IF wpc' = "poll" THEN FALSE ELSE is_playing
  /\ alert' = NoAlert
  /\ UNCHANGED <<message_queue, cooldown_cache, now, ppc, args, current_time,
                 last_played, tick, lastAcceptTick, enqueued, last_outcome>>
  /\ UNCHANGED <<bridgeVars, cartoVars, restVars>>
  /\ UNCHANGED passed

\* the speech engine runs
WorkerPlay == Play(FALSE)

\* the speech engine cannot be started and subprocess.run raises
WorkerPlayFails == Play(TRUE)

ProducerStep(p, hops) ==
  \/ \E sys \in Keys, j \in hops, f \in BOOLEAN : Call(p, sys, j, f)
  \/ Filter(p)
  \/ ReadCache(p)
  \/ CheckUpdate(p)
  \/ Enqueue(p)

\* one producer thread and the playback worker
NextSeq ==
  \/ Tick
  \/ ProducerStep(1, HopInputs)
  \/ WorkerPop
  \/ WorkerPlay

\* one producer thread offering few hop distances, and the playback worker
NextFew ==
  \/ Tick
  \/ ProducerStep(1, ConcHopInputs)
  \/ WorkerPop
  \/ WorkerPlay

\* one announced hop distance: _play_alert treats a failure of _speak alike
\* at every level (one try around all three branches, lines 89-104)
FailHopInputs == {9}

\* one producer thread and a playback worker whose speech engine may fail
NextFail ==
  \/ Tick
  \/ ProducerStep(1, FailHopInputs)
  \/ WorkerPop
  \/ WorkerPlay
  \/ WorkerPlayFails

\* hop distances without a tier, at both ends of the tiers, and out of range
TouchHopInputs == {-1, 0, 9, 10}

\* one producer thread offering these hop distances, and the playback worker
NextTouch ==
  \/ Tick
  \/ ProducerStep(1, TouchHopInputs)
  \/ WorkerPop
  \/ WorkerPlay

\* one producer thread, and the playback worker with a speech engine that
\* may fail
NextPlay ==
  \/ Tick
  \/ ProducerStep(1, PlayHopInputs)
  \/ WorkerPop
  \/ WorkerPlay
  \/ WorkerPlayFails

\* several producer threads and the playback worker
NextConc ==
  \/ Tick
  \/ \E p \in Producers : ProducerStep(p, ConcHopInputs)
  \/ WorkerPop
  \/ WorkerPlay

(* --------------------------------- text --------------------------------- *)
\* a string is the sequence of its characters
Lowers == <<"a", "b", "c", "d", "e", "f", "g", "h", "i", "j", "k", "l", "m",
            "n", "o", "p", "q", "r", "s", "t", "u", "v", "w", "x", "y", "z">>
Uppers == <<"A", "B", "C", "D", "E", "F", "G", "H", "I", "J", "K", "L", "M",
            "N", "O", "P", "Q", "R", "S", "T", "U", "V", "W", "X", "Y", "Z">>

IsUpperChar(c) == \E i \in DOMAIN Uppers : Uppers[i] = c
IsLowerChar(c) == \E i \in DOMAIN Lowers : Lowers[i] = c
IsLetter(c) == IsUpperChar(c) \/ IsLowerChar(c)

LowerChar(c) ==
  IF IsUpperChar(c) THEN Lowers[CHOOSE i \in DOMAIN Uppers : Uppers[i] = c] ELSE c
UpperChar(c) ==
  IF IsLowerChar(c) THEN Uppers[CHOOSE i \in DOMAIN Lowers : Lowers[i] = c] ELSE c

\* str.lower() and str.upper()
Lower(s) == [i \in DOMAIN s |-> LowerChar(s[i])]
Upper(s) == [i \in DOMAIN s |-> UpperChar(s[i])]

(* ----------------------------- ThreatProfiler --------------------------- *)
\* seconds a cache entry lives
TTL == 86400
\* dangerRatio above which the tag gets its qualifier
DANGER_LIMIT == 80
\* ranks of the top ship list that are looked at
TOP_RANKS == 3

SHIPS_TACKLE == {"Sabre", "Flycatcher", "Eris", "Heretic", "Stiletto",
                 "Malediction", "Crow", "Ares", "Broadsword", "Onyx", "Phobos",
                 "Devoter"}
SHIPS_BLOPS == {"Panther", "Redeemer", "Widow", "Sin", "Marshal", "Tengu",
                "Loki", "Legion", "Proteus"}
SHIPS_BOMBER == {"Hound", "Nemesis", "Manticore", "Purifier"}
SHIPS_HUNTER == {"Kikimora", "Orthrus", "Omen Navy Issue", "Osprey Navy Issue",
                 "Vagabond", "Vedmak"}

\* the alliance of the user, and another one
HOME == 386292982
FOREIGN == HOME + 1

\* actor names offered to profile_player
ActorNames == { <<"V", "e", "e">>, <<"v", "e", "e">>, <<"V", "E", "E">>,
                <<"G", "o", "b">> }

\* a threat tag: the tags joined by " | ", and the "(Peligroso)" suffix
Tag(tags, peligroso) == [tags |-> tags, peligroso |-> peligroso]
NoTag == Tag(<<>>, FALSE)

\* the strings profile_player returns
Friendly == [kind |-> "ALIADO", ship |-> "", tag |-> NoTag]
NotFound == [kind |-> "NO ENCONTRADO", ship |-> "", tag |-> NoTag]
NoHistory == [kind |-> "SIN HISTORIAL PVP", ship |-> "", tag |-> NoTag]
Classified(ship, tag) == [kind |-> "PERFIL", ship |-> ship, tag |-> tag]

\* what _fetch_zkill_stats may return: None, an empty object, an object
\* without topLists, or statistics with the values of the shipType list
ZkNone == [kind |-> "none", topLists |-> FALSE, ships |-> <<>>, danger |-> 0]
ZkEmpty == [kind |-> "empty", topLists |-> FALSE, ships |-> <<>>, danger |-> 0]
ZkStats(top, ships, danger) ==
  [kind |-> "stats", topLists |-> top, ships |-> ships, danger |-> danger]

\* _analyze_threat_profile, lines 122-131: the tags of ranks rank..3
RECURSIVE TagsFrom(_, _, _)
TagsFrom(ships, rank, tags) ==
  IF rank > TOP_RANKS \/ rank > Len(ships) THEN tags
  ELSE LET s == ships[rank]
           t1 == IF s \in SHIPS_TACKLE /\ ~Contains(tags, "TACKLE")
                 THEN Append(tags, "TACKLE/INTERDICTOR") ELSE tags
           t2 == IF s \in SHIPS_BLOPS /\ ~Contains(t1, "BLOPS/DROPPER")
                 THEN Append(t1, "BLOPS/DROPPER") ELSE t1
           t3 == IF s \in SHIPS_BOMBER /\ ~Contains(t2, "BOMBER")
                 THEN Append(t2, "BOMBER") ELSE t2
           t4 == IF s \in SHIPS_HUNTER /\ ~Contains(t3, "KITE/HUNTER")
                 THEN Append(t3, "KITE/HUNTER") ELSE t3
       IN TagsFrom(ships, rank + 1, t4)

\* _analyze_threat_profile, lines 99-140: ship name and threat tag
Analyze(zk) ==
  IF ~zk.topLists THEN [ship |-> "Desconocido", tag |-> Tag(<<"No Data">>, FALSE)]
  ELSE IF zk.ships = <<>>
  THEN [ship |-> "Desconocido", tag |-> Tag(<<"Minimo/Industrial">>, FALSE)]
  ELSE LET tags == TagsFrom(zk.ships, 1, <<>>)
       IN [ship |-> zk.ships[1],
           tag |-> Tag(IF tags = <<>> THEN <<"General PVP">> ELSE tags,
                       zk.danger > DANGER_LIMIT)]

\* _load_cache, lines 31-47: the entries of the file younger than 24 hours
LoadCache(file, t) ==
  LET young == {k \in DOMAIN file : t - file[k].timestamp < TTL}
  IN [k \in young |-> file[k]]

\* the name as it was typed
ExactKey(name) == name

\* profile_player, line 147: the cache key of a name
CacheKey(name) == Lower(name)

FriendlyEntry(t) ==
  [timestamp |-> t, is_friendly |-> TRUE, top_ship |-> "", threat_tag |-> NoTag]
ClassifiedEntry(t, ship, tag) ==
  [timestamp |-> t, is_friendly |-> FALSE, top_ship |-> ship, threat_tag |-> tag]

\* profile_player, lines 148-152: the label of a cache entry
EntryLabel(data) ==
  IF data.is_friendly THEN Friendly ELSE Classified(data.top_ship, data.threat_tag)

Outcome(label, calls, cache, saved) ==
  [label |-> label, calls |-> calls, cache |-> cache, saved |-> saved]

\* a pipeline that remembers a missing history as an unknown profile
PipelinePoisoned(cache, my, t, c_name, char_id, alliance_id, zk) ==
  IF char_id = 0 THEN Outcome(NotFound, <<"resolve">>, cache, FALSE)
  ELSE IF my # 0 /\ alliance_id = my
  THEN Outcome(Friendly, <<"resolve", "alliance">>,
               Put(cache, c_name, FriendlyEntry(t)), TRUE)
  ELSE IF zk.kind # "stats"
  THEN Outcome(NoHistory, <<"resolve", "alliance", "zkill">>,
               Put(cache, c_name, ClassifiedEntry(t, "Desconocido", NoTag)), TRUE)
  ELSE LET a == Analyze(zk)
       IN Outcome(Classified(a.ship, a.tag), <<"resolve", "alliance", "zkill">>,
                  Put(cache, c_name, ClassifiedEntry(t, a.ship, a.tag)), TRUE)

\* a pipeline that asks zKillboard a second time when the first answer is
\* missing
PipelineRetries(cache, my, t, c_name, char_id, alliance_id, zk) ==
  IF char_id = 0 THEN Outcome(NotFound, <<"resolve">>, cache, FALSE)
  ELSE IF my # 0 /\ alliance_id = my
  THEN Outcome(Friendly, <<"resolve", "alliance">>,
               Put(cache, c_name, FriendlyEntry(t)), TRUE)
  ELSE IF zk.kind # "stats"
  THEN Outcome(NoHistory, <<"resolve", "alliance", "zkill", "zkill">>, cache, FALSE)
  ELSE LET a == Analyze(zk)
       IN Outcome(Classified(a.ship, a.tag), <<"resolve", "alliance", "zkill">>,
                  Put(cache, c_name, ClassifiedEntry(t, a.ship, a.tag)), TRUE)

\* a pipeline that keeps a friendly actor in memory and forgets to write the
\* file
PipelineUnsaved(cache, my, t, c_name, char_id, alliance_id, zk) ==
  IF char_id = 0 THEN Outcome(NotFound, <<"resolve">>, cache, FALSE)
  ELSE IF my # 0 /\ alliance_id = my
  THEN Outcome(Friendly, <<"resolve", "alliance">>,
               Put(cache, c_name, FriendlyEntry(t)), FALSE)
  ELSE IF zk.kind # "stats"
  THEN Outcome(NoHistory, <<"resolve", "alliance", "zkill">>, cache, FALSE)
  ELSE LET a == Analyze(zk)
       IN Outcome(Classified(a.ship, a.tag), <<"resolve", "alliance", "zkill">>,
                  Put(cache, c_name, ClassifiedEntry(t, a.ship, a.tag)), TRUE)

\* profile_player, lines 154-188: the resolution pipeline on a cache miss,
\* given what the three collaborators answer (0 stands for None)
Pipeline(cache, my, t, c_name, char_id, alliance_id, zk) ==
  IF char_id = 0 THEN Outcome(NotFound, <<"resolve">>, cache, FALSE)
  ELSE IF my # 0 /\ alliance_id = my
  THEN Outcome(Friendly, <<"resolve", "alliance">>,
               Put(cache, c_name, FriendlyEntry(t)), TRUE)
  ELSE IF zk.kind # "stats"
  THEN Outcome(NoHistory, <<"resolve", "alliance", "zkill">>, cache, FALSE)
  ELSE LET a == Analyze(zk)
       IN Outcome(Classified(a.ship, a.tag), <<"resolve", "alliance", "zkill">>,
                  Put(cache, c_name, ClassifiedEntry(t, a.ship, a.tag)), TRUE)

\* profile_player, lines 146-188
ProfileOutcome(cache, my, t, name, char_id, alliance_id, zk) ==
  LET c_name == CacheKey(name)
  IN IF c_name \in DOMAIN cache
     THEN Outcome(EntryLabel(cache[c_name]), <<>>, cache, FALSE)
     ELSE Pipeline(cache, my, t, c_name, char_id, alliance_id, zk)

\* clock readings offered to the profiler
ProfStart == 2 * TTL
ProfTimes == {ProfStart + d : d \in {0, TTL - 1, TTL, TTL + 3600}}

\* threat caches left by an earlier session: none, and one with an entry 25
\* hours old and an entry one hour old
SavedThreatFiles ==
  { <<>>,
    Put(Put(<<>>, <<"v", "e", "e">>,
            ClassifiedEntry(ProfStart - (TTL + 3600), "Sabre",
                            Tag(<<"TACKLE/INTERDICTOR">>, FALSE))),
        <<"g", "o", "b">>, FriendlyEntry(ProfStart - 3600)) }

\* no collaborator was asked
NoAnswer == <<0, 0, ZkNone>>

NoCall == [name |-> <<>>, label |-> NotFound, calls |-> <<>>, at |-> 0,
           ans |-> NoAnswer]

ProfFields ==
  /\ tp_now = ProfStart
  /\ tp_cache = LoadCache(tp_file, tp_now)
  /\ tp_last = NoCall
  /\ tp_given = <<>>
  /\ tp_count = 0

\* a ThreatProfiler as main_ui.py constructs it, with no cache file yet
ProfAtRest ==
  /\ my_alliance_id = 0
  /\ tp_file = <<>>
  /\ ProfFields

\* ThreatProfiler(my_alliance_id, cache_file)
InitProfiler ==
  /\ my_alliance_id \in {0, HOME}
  /\ tp_file \in SavedThreatFiles
  /\ ProfFields

\* the wall clock moves on
ProfTick ==
  /\ \E t \in ProfTimes : t > tp_now /\ tp_now' = t
  /\ UNCHANGED <<my_alliance_id, tp_cache, tp_file, tp_last, tp_given, tp_count>>
  /\ UNCHANGED <<audioVars, bridgeVars, cartoVars, parseVars, tailVars>>

\* profile_player(name), with the answers of the collaborators it asks
Profile(name, char_id, alliance_id, zk) ==
  /\ tp_count < MaxProfiles
  /\ LET o == ProfileOutcome(tp_cache, my_alliance_id, tp_now, name, char_id,
                             alliance_id, zk)
     IN /\ tp_cache' = o.cache
        /\ tp_file' = IF o.saved THEN o.cache ELSE tp_file
        /\ tp_last' = [name |-> name, label |-> o.label, calls |-> o.calls,
                       at |-> tp_now,
                       ans |-> IF o.calls = <<>> THEN NoAnswer
                               ELSE <<char_id, alliance_id, zk>>]
        /\ tp_given' = IF o.calls # <<>> /\ o.label.kind \in {"ALIADO", "PERFIL"}
                       THEN Put(tp_given, name, [label |-> o.label, at |-> tp_now])
                       ELSE tp_given
  /\ tp_count' = tp_count + 1
  /\ UNCHANGED <<my_alliance_id, tp_now>>
  /\ UNCHANGED <<audioVars, bridgeVars, cartoVars, parseVars, tailVars>>

\* a new session: a new ThreatProfiler loads the file
ProfRestart ==
  /\ tp_cache' = LoadCache(tp_file, tp_now)
  /\ tp_cache' # tp_cache
  /\ UNCHANGED <<my_alliance_id, tp_file, tp_now, tp_last, tp_given, tp_count>>
  /\ UNCHANGED <<audioVars, bridgeVars, cartoVars, parseVars, tailVars>>

\* answers of the three collaborators: one for each way a call can go
Answers ==
  { <<0, 0, ZkNone>>, <<7, HOME, ZkNone>>, <<7, FOREIGN, ZkNone>>,
    <<7, 0, ZkEmpty>>, <<7, 0, ZkStats(FALSE, <<>>, 0)>>,
    <<7, FOREIGN, ZkStats(TRUE, <<"Hound", "Panther">>, DANGER_LIMIT + 1)>> }

\* vessels offered in the statistics: two tackle ships, one of each other
\* role, and one of no role
ShipPool == {"Sabre", "Stiletto", "Panther", "Hound", "Vagabond", "Rifter"}

\* statistics with one to MaxShips different vessels and a danger ratio at
\* and above the limit
StatInputs ==
  { ZkStats(TRUE, ships, d) :
      ships \in UNION { {f \in [1..n -> ShipPool] :
                           \A i, j \in 1..n : f[i] = f[j] => i = j} :
                        n \in 1..MaxShips },
      d \in {DANGER_LIMIT, DANGER_LIMIT + 1} }

\* the first call of a session, for a foreign actor with statistics
NextClassify ==
  \E zk \in StatInputs :
    tp_count = 0 /\ Profile(<<"G", "o", "b">>, 7, FOREIGN, zk)

NextProfiler ==
  \/ ProfTick
  \/ \E name \in ActorNames, ans \in Answers :
        Profile(name, ans[1], ans[2], ans[3])
  \/ ProfRestart

(* ------------------------------- IntelParser ---------------------------- *)
\* whitespace as str.strip(), str.split() and the pattern's \s see it
IsSpace(c) == c \in {" ", "\t"}

\* the part of s from position i to position j, empty when i > j
Slice(s, i, j) == IF i > j THEN <<>> ELSE SubSeq(s, i, j)

\* str.strip()
RECURSIVE LStrip(_)
LStrip(s) == IF s # <<>> /\ IsSpace(Head(s)) THEN LStrip(Tail(s)) ELSE s
RECURSIVE RStrip(_)
RStrip(s) ==
  IF s # <<>> /\ IsSpace(s[Len(s)]) THEN RStrip(SubSeq(s, 1,
      Len(s) - 1)) ELSE s
Strip(s) == LStrip(RStrip(s))

\* str.split(): the maximal runs of characters that are not whitespace
RECURSIVE SplitFrom(_, _, _)
SplitFrom(s, cur, acc) ==
  IF s = <<>> THEN (IF cur = <<>> THEN acc ELSE Append(acc, cur))
  ELSE IF IsSpace(Head(s))
  THEN SplitFrom(Tail(s), <<>>, IF cur = <<>> THEN acc ELSE Append(acc, cur))
  ELSE SplitFrom(Tail(s), Append(cur, Head(s)), acc)
Split(s) == SplitFrom(s, <<>>, <<>>)

\* sub in s, for strings
StartsAt(s, i, sub) ==
  /\ i + Len(sub) - 1 <= Len(s)
  /\ \A j \in DOMAIN sub : s[i + j - 1] = sub[j]
HasSub(s, sub) == \E i \in 1..(Len(s) + 1) : StartsAt(s, i, sub)

\* str.startswith(prefix)
StartsWith(s, prefix) == StartsAt(s, 1, prefix)

\* the length of the run of whitespace that starts at position i, and of the
\* one that ends at position i
RECURSIVE SpacesFrom(_, _)
SpacesFrom(s, i) ==
  IF i <= Len(s) /\ IsSpace(s[i]) THEN 1 + SpacesFrom(s, i + 1) ELSE 0
RECURSIVE SpacesUpTo(_, _)
SpacesUpTo(s, i) ==
  IF i >= 1 /\ IsSpace(s[i]) THEN 1 + SpacesUpTo(s, i - 1) ELSE 0

\* LOG_PATTERN from the author on, \s+(.*?)\s+>\s+(.*)$, tried at position k
\* (the place of "]"): every way to split the rest of the line, as
\* <<whitespace, length of the author, whitespace, place of ">", whitespace>>
RestSplits(s, k) ==
  UNION { { x \in { <<c, g - d - (k + c) - 1, d, g, e>> :
                      c \in 1..SpacesFrom(s, k + 1),
                      d \in 1..SpacesUpTo(s, g - 1),
                      e \in 1..SpacesFrom(s, g + 1) } : x[2] >= 0 } :
          g \in {i \in DOMAIN s : s[i] = ">"} }

\* the order in which the matcher tries the splits: \s+ takes as much as it
\* can, the lazy group (.*?) as little as it can
RestBefore(x, y) ==
  \/ x[1] > y[1]
  \/ x[1] = y[1] /\ x[2] < y[2]
  \/ x[1] = y[1] /\ x[2] = y[2] /\ x[3] > y[3]
  \/ x[1] = y[1] /\ x[2] = y[2] /\ x[3] = y[3] /\ x[5] > y[5]

\* LOG_PATTERN up to "]", ^\[\s+(.*?)\s+\]: every way to split the head of
\* the line such that the rest matches too, as
\* <<whitespace, length of the timestamp, whitespace, place of "]">>
HeadSplits(s) ==
  IF s = <<>> \/ Head(s) # "[" THEN {}
  ELSE UNION { { x \in { <<a, k - b - a - 2, b, k>> :
                           a \in 1..SpacesFrom(s, 2),
                           b \in 1..SpacesUpTo(s, k - 1) } : x[2] >= 0 } :
               k \in {i \in DOMAIN s : s[i] = "]" /\ RestSplits(s, i) # {}} }

HeadBefore(x, y) ==
  \/ x[1] > y[1]
  \/ x[1] = y[1] /\ x[2] < y[2]
  \/ x[1] = y[1] /\ x[2] = y[2] /\ x[3] > y[3]

\* the split the matcher reaches first
FirstHead(S) == CHOOSE x \in S : \A y \in S : x = y \/ HeadBefore(x, y)
FirstRest(S) == CHOOSE x \in S : \A y \in S : x = y \/ RestBefore(x, y)

NoMatch == [matched |-> FALSE, timestamp |-> <<>>, author |-> <<>>,
    message |-> <<>>]

\* LOG_PATTERN.match(s): the groups of the first split that succeeds
MatchLog(s) ==
  IF HeadSplits(s) = {} THEN NoMatch
  ELSE LET h == FirstHead(HeadSplits(s))
           r == FirstRest(RestSplits(s, h[4]))
       IN [matched |-> TRUE,
           timestamp |-> Slice(s, 2 + h[1], 1 + h[1] + h[2]),
           author |-> Slice(s, h[4] + r[1] + 1, h[4] + r[1] + r[2]),
           message |-> Slice(s, r[4] + r[5] + 1, Len(s))]

\* str.isupper(): no lower-case letter and at least one upper-case letter
IsUpperStr(w) ==
  /\ \A i \in DOMAIN w : ~IsLowerChar(w[i])
  /\ \E i \in DOMAIN w : IsUpperChar(w[i])

\* str.title(): a letter that follows a letter is lower case, any other
\* letter is upper case
Title(w) ==
  [i \in DOMAIN w |->
     IF i > 1 /\ IsLetter(w[i - 1]) THEN LowerChar(w[i]) ELSE UpperChar(w[i])]

\* the keywords that are looked up among the tokens
CLEAR_WORDS == {<<"c", "l", "r">>, <<"c", "l", "e", "a", "r">>}
NV_WORDS == {<<"n", "v">>}
NO_VIS == <<"n", "o", " ", "v", "i", "s">>

\* parse_line, lines 35-42: the status of a message
Status(message) ==
  LET msg_lower == Lower(message)
      tokens == Split(msg_lower)
  IN IF \E w \in CLEAR_WORDS : Contains(tokens, w) THEN "clear"
     ELSE IF (\E w \in NV_WORDS : Contains(tokens, w)) \/ HasSub(msg_lower,
         NO_VIS)
     THEN "no_vis"
     ELSE "hostile"

\* DSCAN_PATTERN: the hosts of scan reports, with both schemes
DSCAN_HOSTS == {<<"d", "s", "c", "a", "n", ".", "i", "n", "f", "o">>, <<"a",
    "d", "a", "s", "h", "b", "o", "a", "r", "d", ".", "i", "n", "f", "o">>,
        <<"e", "v", "e", "p", "r", "a", "i", "s", "a", "l", ".", "c", "o",
            "m">>, <<"d", "s", "c", "a", "n", ".", "m", "e">>}
DscanPrefixes ==
  {sch \o h \o <<"/">> : sch \in {<<"h", "t", "t", "p", ":", "/", "/">>,
      <<"h", "t", "t", "p", "s", ":", "/", "/">>}, h \in DSCAN_HOSTS}

\* the end of the run of non-whitespace that starts at position i
RECURSIVE RunEnd(_, _)
RunEnd(s, i) ==
  IF i + 1 <= Len(s) /\ ~IsSpace(s[i + 1]) THEN RunEnd(s, i + 1) ELSE i

\* parse_line, lines 45-46: the first scan link of the message, or None
NoLink == <<>>
DscanLink(message) ==
  LET hits == {i \in DOMAIN message :
                 \E p \in DscanPrefixes :
                   /\ StartsAt(message, i, p)
                   /\ i + Len(p) <= Len(message)
                   /\ ~IsSpace(message[i + Len(p)])}
  IN IF hits = {} THEN NoLink
     ELSE LET i == CHOOSE h \in hits : \A o \in hits : h <= o
          IN SubSeq(message, i, RunEnd(message, i))

\* reportedLocation when nothing was found
NoSystem == <<"None">>

\* the last known token in place of the first
LastKnown(words, known) ==
  LET hits == {i \in DOMAIN words : Lower(words[i]) \in known}
  IN IF hits = {} THEN 0 ELSE CHOOSE i \in hits : \A j \in hits : j <= i

\* parse_line, lines 55-59: the place of the first token that is a known
\* system, 0 when there is none
FirstKnown(words, known) ==
  LET hits == {i \in DOMAIN words : Lower(words[i]) \in known}
  IN IF hits = {} THEN 0 ELSE CHOOSE i \in hits : \A j \in hits : i <= j

\* parse_line, lines 53-59: the system in dictionary mode
DictSystem(words, known) ==
  LET i == FirstKnown(words, known)
  IN IF i = 0 THEN NoSystem
     ELSE IF IsUpperStr(words[i]) THEN Upper(words[i]) ELSE Title(words[i])

\* parse_line, lines 64 and 67
INTEL_KEYWORDS == {<<"c", "l", "r">>, <<"c", "l", "e", "a", "r">>, <<"n",
    "v">>, <<"n", "o">>, <<"v", "i", "s">>, <<"d", "s", "c", "a", "n">>,
        <<"s", "p", "i", "k", "e">>, <<"l", "o", "c", "a", "l">>,
                   <<"i", "n">>, <<"s", "y", "s", "t", "e", "m">>}
PUNCTUATION == {"*", ".", ",", ":", ";", "!", "?"}

\* str.strip("*.,:;!?")
RECURSIVE LStripPunct(_)
LStripPunct(w) ==
  IF w # <<>> /\ Head(w) \in PUNCTUATION THEN LStripPunct(Tail(w)) ELSE w
RECURSIVE RStripPunct(_)
RStripPunct(w) ==
  IF w # <<>> /\ w[Len(w)] \in PUNCTUATION
  THEN RStripPunct(SubSeq(w, 1, Len(w) - 1)) ELSE w
StripPunct(w) == LStripPunct(RStripPunct(w))

\* parse_line, lines 61-71: the system in heuristic mode
RECURSIVE HeuristicSystem(_)
HeuristicSystem(words) ==
  IF words = <<>> THEN NoSystem
  ELSE LET clean_w == StripPunct(Head(words))
       IN IF Lower(clean_w) \notin INTEL_KEYWORDS /\ ~StartsWith(clean_w,
           <<"h", "t", "t", "p">>)
          THEN clean_w
          ELSE HeuristicSystem(Tail(words))

\* parse_line returned None
NoRecord ==
  [parsed |-> FALSE, timestamp |-> <<>>, author |-> <<>>, system |-> NoSystem,
   status |-> "", dscan |-> NoLink, raw_message |-> <<>>]

\* __init__, line 21: the known systems, lower-cased
KnownSystems(names) == {Lower(n) : n \in names}

\* parse_line, lines 28-83
ParseLine(known, line) ==
  LET m == MatchLog(Strip(line))
  IN IF ~m.matched THEN NoRecord
     ELSE LET words == Split(m.message)
          IN [parsed |-> TRUE,
              timestamp |-> m.timestamp,
              author |-> m.author,
              system |-> IF known # {} THEN DictSystem(words, known)
                         ELSE HeuristicSystem(words),
              status |-> Status(m.message),
              dscan |-> DscanLink(m.message),
              raw_message |-> m.message]

\* lines offered to the parser: the envelope "[ T ] A > M" with each part
\* present or missing, with more or less whitespace, and with the closing
\* characters inside the parts
EnvelopeLines ==
  { pre \o ob \o w1 \o t \o w2 \o cb \o w3 \o a \o w4 \o gt \o w5 \o m :
      pre \in {<<>>, <<" ">>}, ob \in {<<>>, <<"[">>},
      w1 \in {<<>>, <<" ">>, <<"\t", " ">>}, t \in {<<>>, <<"t">>, <<"t",
          " ", "]", " ", "t">>},
      w2 \in {<<>>, <<" ", " ">>}, cb \in {<<>>, <<"]">>},
      w3 \in {<<>>, <<" ">>}, a \in {<<>>, <<"a", " ", "b">>, <<"a", " ",
          ">", " ", "b">>},
      w4 \in {<<>>, <<" ">>}, gt \in {<<>>, <<">">>},
      w5 \in {<<>>, <<" ">>}, m \in {<<>>, <<"m">>, <<"m", " ", ">", " ",
          "m">>} }

\* message tokens: the keywords in both cases, words that contain them,
\* system names and a scan link
Tokens ==
  { <<"c", "l", "r">>, <<"C", "l", "e", "a", "r">>, <<"n", "v">>, <<"n",
      "o">>, <<"v", "i", "s">>, <<"u", "n", "c", "l", "e", "a", "r">>, <<"c",
          "a", "s", "i", "n", "o">>, <<"v", "i", "s", "i", "t">>, <<"V", "F",
              "K", "-", "I", "V">>,
    <<"v", "f", "k", "-", "i", "v">>, <<"1", "d", "q", "1", "-", "a">>,
        <<"J", "i", "t", "a">>, <<"*", "*", "*">>, <<"h", "t", "t", "p", "s",
            ":", "/", "/", "d", "s", "c", "a", "n", ".", "m", "e", "/",
                "v">> }

\* the messages of n tokens with sep between them
RECURSIVE MessagesOf(_, _)
MessagesOf(n, sep) ==
  IF n = 1 THEN Tokens
  ELSE {m \o sep \o w : m \in MessagesOf(n - 1, sep), w \in Tokens}

Messages == UNION {MessagesOf(n, sep) : n \in 1..MaxTokens, sep \in {<<" ">>,
    <<" ", " ">>}}

MessageLines == {<<"[", " ", "2", "2", ":", "1", "5", " ", "]", " ", "O",
    "b", "v", "i", "o", " ", ">", " ">> \o m : m \in Messages}

\* known_systems as handed to IntelParser: none, lower case, mixed case
KnownInputs == { {}, {<<"v", "f", "k", "-", "i", "v">>, <<"j", "i", "t",
    "a">>, <<"1", "d", "q", "1", "-", "a">>}, {<<"V", "F", "K", "-", "I",
        "V">>, <<"J", "i", "t", "a">>} }

\* an IntelParser without known systems that has parsed nothing
ParserAtRest ==
  /\ known_systems = {}
  /\ raw_line = <<>>
  /\ record = NoRecord
  /\ ps_pc = "idle"

\* IntelParser(known_systems) and the line it is about to be given
InitParser ==
  /\ \/ known_systems = {} /\ raw_line \in EnvelopeLines
     \/ \E names \in KnownInputs :
          known_systems = KnownSystems(names) /\ raw_line \in MessageLines
  /\ record = NoRecord
  /\ ps_pc = "call"

\* parse_line(raw_line)
Parse ==
  /\ ps_pc = "call"
  /\ record' = ParseLine(known_systems, raw_line)
  /\ ps_pc' = "done"
  /\ UNCHANGED <<known_systems, raw_line>>
  /\ UNCHANGED <<audioVars, bridgeVars, cartoVars, profVars, tailVars>>

NextParser == Parse

(* ------------------------------- IntelTailer ---------------------------- *)
\* watch, line 87: file discovery runs again every tenth iteration
REFRESH_EVERY == 10

\* channels_to_watch, in list order
Channels == <<"A", "B">>
ChannelSet == {Channels[i] : i \in DOMAIN Channels}

\* the chat logs the game may write: two for channel A, one for channel B
LogFiles == {"A_1.txt", "A_2.txt", "B_1.txt"}
ChannelOf(path) == IF path = "B_1.txt" THEN "B" ELSE "A"

\* _find_latest_log_for_channel: the file of the channel that was modified
\* last, None when the glob finds no file
NoFile == "None"
LatestLog(mtimes, channel) ==
  LET mine == SelectSeq(mtimes, LAMBDA p : ChannelOf(p) = channel)
  IN IF mine = <<>> THEN NoFile ELSE mine[Len(mine)]

\* a file object: its path, the number of lines read or skipped so far, and
\* whether close() was called on it; first is the position after the open
Handle(path, pos) == [path |-> path, pos |-> pos, closed |-> FALSE, first |-> pos]

\* an open that starts reading at the top of the file
OpenAtStart(len) == 0

\* _refresh_file_handles, lines 57-61: open and seek(0, os.SEEK_END)
OpenAtEnd(len) == len

\* what a discovery pass or a read pass works on
NoError == "None"
TailState(active, order, seen, opens, bad, out) ==
  [active |-> active, order |-> order, seen |-> seen, opens |-> opens,
   failed |-> bad, out |-> out, error |-> NoError]

\* _refresh_file_handles, lines 41-68, for the channels chs; the opens of
\* the channels in fails raise
RECURSIVE RefreshFrom(_, _, _, _, _)
RefreshFrom(chs, st, files, mtimes, fails) ==
  IF chs = <<>> THEN st
  ELSE LET channel == Head(chs)
           latest_file == LatestLog(mtimes, channel)
           known == channel \in DOMAIN st.active
           changed == ~known \/ st.active[channel].path # latest_file
           \* line 53: close the old file object
           wasOpen == known /\ ~st.active[channel].closed
           closedActive == IF known
                           THEN [st.active EXCEPT ![channel].closed = TRUE]
                           ELSE st.active
           opensLeft == IF wasOpen THEN st.opens - 1 ELSE st.opens
           next ==
             IF latest_file = NoFile \/ ~changed THEN st
             ELSE IF channel \in fails
             THEN [st EXCEPT !.active = closedActive, !.opens = opensLeft,
                             !.failed = @ \cup {channel}]
             ELSE [st EXCEPT
                     !.active = Put(closedActive, channel,
                                    Handle(latest_file, OpenAtEnd(files[latest_file]))),
                     !.order = IF known THEN @ ELSE Append(@, channel),
                     !.seen = [@ EXCEPT ![latest_file] = files[latest_file]],
                     !.opens = opensLeft + 1,
                     !.failed = @ \ {channel}]
       IN RefreshFrom(Tail(chs), next, files, mtimes, fails)

\* watch, lines 90-101: read every handle to its end, in the order of the
\* dictionary. readline() on a closed file raises ValueError. The files are
\* UTF-16 with a byte order mark at their start (line 57): seek(0, SEEK_END)
\* resets the decoder, so a handle opened on a file that already had content
\* never sees the mark and its first read of new content raises
\* UnicodeError. Nothing in watch catches either
RECURSIVE ReadFrom(_, _, _)
ReadFrom(chs, st, files) ==
  IF chs = <<>> THEN st
  ELSE LET channel == Head(chs)
           h == st.active[channel]
       IN IF h.closed THEN [st EXCEPT !.error = "ValueError"]
          ELSE IF h.first > 0 /\ files[h.path] > h.pos
          THEN [st EXCEPT !.error = "UnicodeError"]
          ELSE ReadFrom(Tail(chs),
                 [st EXCEPT
                    !.active[channel].pos = files[h.path],
                    !.out = @ \cup {<<channel, h.path, i>> :
                                      i \in (h.pos + 1)..files[h.path]}],
                 files)

\* an IntelTailer that was constructed and never started
TailerAtRest ==
  /\ tl_files = [p \in LogFiles |-> 0]
  /\ tl_exists = {}
  /\ tl_mtimes = <<>>
  /\ active_log_files = <<>>
  /\ active_order = <<>>
  /\ loop_counter = 0
  /\ tl_pc = "new"
  /\ tl_error = NoError
  /\ delivered = {}
  /\ tl_seen = [p \in LogFiles |-> 0]
  /\ tl_opens = 0
  /\ tl_failed = {}
  /\ log_text = <<>>
  /\ read_pos = 0
  /\ handled = <<>>
  /\ stale_polls = 0

\* IntelTailer(log_dir, channels, parser) on a directory that holds a log
\* with one line for channel A and possibly one for channel B
InitTailer ==
  /\ \E old \in {<<"A_1.txt">>, <<"A_1.txt", "B_1.txt">>, <<"B_1.txt", "A_1.txt">>} :
       /\ tl_mtimes = old
       /\ tl_exists = {old[i] : i \in DOMAIN old}
  /\ tl_files = [p \in LogFiles |-> IF p \in tl_exists THEN 1 ELSE 0]
  /\ active_log_files = <<>>
  /\ active_order = <<>>
  /\ loop_counter = 0
  /\ tl_pc = "start"
  /\ tl_error = NoError
  /\ delivered = {}
  /\ tl_seen = [p \in LogFiles |-> 0]
  /\ tl_opens = 0
  /\ tl_failed = {}
  /\ log_text = <<>>
  /\ read_pos = 0
  /\ handled = <<>>
  /\ stale_polls = 0

\* the game starts a new log file, still empty
CreateLog(p) ==
  /\ p \notin tl_exists
  /\ tl_exists' = tl_exists \cup {p}
  /\ tl_mtimes' = Append(tl_mtimes, p)
  /\ UNCHANGED <<tl_files, active_log_files, active_order, loop_counter, tl_pc,
                 tl_error, delivered, tl_seen, tl_opens, tl_failed>>
  /\ UNCHANGED <<audioVars, bridgeVars, cartoVars, profVars, parseVars, lineVars>>
  /\ UNCHANGED stale_polls

\* the game appends a line to a log file (after the byte order mark when it
\* is the first), which makes the file the latest
WriteLine(p) ==
  /\ p \in tl_exists
  /\ tl_files[p] < MaxLines
  /\ tl_files' = [tl_files EXCEPT ![p] = @ + 1]
  /\ tl_mtimes' = Append(SelectSeq(tl_mtimes, LAMBDA q : q # p), p)
  /\ UNCHANGED <<tl_exists, active_log_files, active_order, loop_counter, tl_pc,
                 tl_error, delivered, tl_seen, tl_opens, tl_failed>>
  /\ UNCHANGED <<audioVars, bridgeVars, cartoVars, profVars, parseVars, lineVars>>
  /\ UNCHANGED stale_polls

\* one more iteration without a discovery pass
StalePlus(n) == IF n < REFRESH_EVERY THEN n + 1 ELSE n

StateNow ==
  TailState(active_log_files, active_order, tl_seen, tl_opens, tl_failed,
            delivered)

Install(st) ==
  /\ active_log_files' = st.active
  /\ active_order' = st.order
  /\ tl_seen' = st.seen
  /\ tl_opens' = st.opens
  /\ tl_failed' = st.failed
  /\ delivered' = st.out
  /\ tl_error' = st.error
  /\ tl_pc' = IF st.error = NoError THEN "loop" ELSE "raised"

\* watch, line 79: the first discovery pass
StartWatch ==
  /\ tl_pc = "start"
  /\ \E fails \in SUBSET ChannelSet :
       Install(RefreshFrom(Channels, StateNow, tl_files, tl_mtimes, fails))
  /\ UNCHANGED <<tl_files, tl_exists, tl_mtimes, loop_counter>>
  /\ UNCHANGED <<audioVars, bridgeVars, cartoVars, profVars, parseVars, lineVars>>
  /\ stale_polls' = 0

\* watch, lines 85-104: one iteration of the loop. loop_counter is kept
\* modulo REFRESH_EVERY
Poll ==
  /\ tl_pc = "loop"
  /\ loop_counter' = (loop_counter + 1) % REFRESH_EVERY
  /\ IF loop_counter' = 0
     THEN \E fails \in SUBSET ChannelSet :
            LET st == RefreshFrom(Channels, StateNow, tl_files, tl_mtimes, fails)
            IN Install(ReadFrom(st.order, st, tl_files))
     ELSE Install(ReadFrom(active_order, StateNow, tl_files))
  /\ UNCHANGED <<tl_files, tl_exists, tl_mtimes>>
  /\ UNCHANGED <<audioVars, bridgeVars, cartoVars, profVars, parseVars, lineVars>>
  /\ stale_polls' = IF loop_counter' = 0 THEN 0 ELSE StalePlus(stale_polls)

\* watch, lines 106-110: KeyboardInterrupt in the loop; every file object of
\* active_log_files is closed
Interrupt ==
  /\ tl_pc = "loop"
  /\ active_log_files' = [ch \in DOMAIN active_log_files |->
                            [active_log_files[ch] EXCEPT !.closed = TRUE]]
  /\ tl_opens' = 0
  /\ tl_pc' = "stopped"
  /\ UNCHANGED <<tl_files, tl_exists, tl_mtimes, active_order, loop_counter,
                 tl_error, delivered, tl_seen, tl_failed>>
  /\ UNCHANGED <<audioVars, bridgeVars, cartoVars, profVars, parseVars, lineVars>>
  /\ UNCHANGED stale_polls

\* IntelWorker.run, main_ui.py lines 86-96: one iteration of the worker's own
\* loop: read every handle, sleep, and run discovery when the second of the
\* clock is a multiple of ten
WorkerPoll ==
  /\ tl_pc = "loop"
  /\ LET read == ReadFrom(active_order, StateNow, tl_files)
     IN \/ /\ Install(read)
           /\ stale_polls' = StalePlus(stale_polls)
        \/ /\ read.error = NoError
           /\ \E fails \in SUBSET ChannelSet :
                Install(RefreshFrom(Channels, read, tl_files, tl_mtimes, fails))
           /\ stale_polls' = 0
  /\ UNCHANGED <<tl_files, tl_exists, tl_mtimes, loop_counter>>
  /\ UNCHANGED <<audioVars, bridgeVars, cartoVars, profVars, parseVars, lineVars>>

\* IntelWorker.stop and run, main_ui.py lines 86 and 98-99: the loop sees
\* running = False and run returns; nothing closes the file objects
StopWorker ==
  /\ tl_pc = "loop"
  /\ tl_pc' = "stopped"
  /\ UNCHANGED <<tl_files, tl_exists, tl_mtimes, active_log_files, active_order,
                 loop_counter, tl_error, delivered, tl_seen, tl_opens, tl_failed>>
  /\ UNCHANGED <<audioVars, bridgeVars, cartoVars, profVars, parseVars, lineVars>>
  /\ UNCHANGED stale_polls

\* the characters the game writes
Chars == {"a", "b", "\n"}

\* the game appends one character to the log file; a line is in the file as
\* a whole once its newline is written
WriteChar(c) ==
  /\ Len(log_text) < MaxChars
  /\ log_text' = Append(log_text, c)
  /\ UNCHANGED <<read_pos, handled>>
  /\ UNCHANGED <<tl_files, tl_exists, tl_mtimes, active_log_files, active_order,
                 tl_pc, tl_error, loop_counter, delivered, tl_seen, tl_opens,
                 tl_failed>>
  /\ UNCHANGED <<audioVars, bridgeVars, cartoVars, profVars, parseVars>>
  /\ UNCHANGED stale_polls

\* f.readline(), line 95, of text with the file object at offset pos: the
\* characters up to and with the next newline, or up to the end of the file
\* when no newline follows; empty at the end of the file
RECURSIVE ReadLine(_, _)
ReadLine(text, pos) ==
  IF pos >= Len(text) THEN <<>>
  ELSE IF text[pos + 1] = "\n" THEN <<"\n">>
  ELSE <<text[pos + 1]>> \o ReadLine(text, pos + 1)

\* watch, lines 94-101: readline until it returns the empty string, each
\* string it returned handed to _process_new_line; the offset reached and the
\* strings handed over
RECURSIVE ReadAll(_, _, _)
ReadAll(text, pos, out) ==
  LET line == ReadLine(text, pos)
  IN IF line = <<>> THEN [pos |-> pos, out |-> out]
     ELSE ReadAll(text, pos + Len(line), Append(out, line))

\* watch, lines 90-104, for this file object: one tick of the loop
ReadTick ==
  /\ LET r == ReadAll(log_text, read_pos, handled)
     IN /\ read_pos' = r.pos
        /\ handled' = r.out
  /\ UNCHANGED log_text
  /\ UNCHANGED <<tl_files, tl_exists, tl_mtimes, active_log_files, active_order,
                 tl_pc, tl_error, loop_counter, delivered, tl_seen, tl_opens,
                 tl_failed>>
  /\ UNCHANGED <<audioVars, bridgeVars, cartoVars, profVars, parseVars>>
  /\ UNCHANGED stale_polls

\* a log written character by character while watch polls it
NextLines ==
  \/ \E c \in Chars : WriteChar(c)
  \/ ReadTick

NextTailer ==
  \/ \E p \in LogFiles : CreateLog(p)
  \/ \E p \in LogFiles : WriteLine(p)
  \/ StartWatch
  \/ Poll
  \/ Interrupt

\* the tailer driven by IntelWorker.run
NextWorker ==
  \/ \E p \in LogFiles : CreateLog(p)
  \/ \E p \in LogFiles : WriteLine(p)
  \/ StartWatch
  \/ WorkerPoll
  \/ StopWorker

\* the other subsystems at rest
RestAtRest == ProfAtRest /\ ParserAtRest /\ TailerAtRest

(* ---------------------------- specifications ---------------------------- *)
vars == <<audioVars, bridgeVars, cartoVars, restVars>>

\* a Cartographer without manager on the chain universe
CartoAtRest ==
  /\ universe = CHOOSE u \in Universes : u[1].stargates = <<2>>
  /\ has_manager = FALSE
  /\ CartoFields

\* the alert dispatcher alone
InitSeq == InitAudio /\ InitBridge /\ CartoAtRest /\ RestAtRest

\* the bridge store alone
InitStore == InitAudio /\ InitBridge /\ CartoAtRest /\ RestAtRest

NextStore ==
  \/ \E ra, rb \in IdInputs : AddBridge(ra, rb)
  \/ \E ra, rb \in IdInputs : RemoveBridge(ra, rb)
  \/ ReloadBridges

\* a Cartographer on one of the universes, with a manager that loaded the
\* file of an earlier session or with none
InitCarto ==
  /\ InitAudio
  /\ universe \in Universes
  /\ has_manager \in BOOLEAN
  /\ jb_file \in (IF has_manager THEN SavedBridgeFiles ELSE {<<>>})
  /\ bridges = LoadBridges(jb_file)
  /\ last_op = [op |-> "load", a |-> <<"int", 1>>, b |-> <<"int", 1>>]
  /\ store_error = "none"
  /\ CartoFields
  /\ RestAtRest

\* the entry _fetch_system_data stores for a system whose stargate requests
\* gave the destinations conns
CacheEntry(u, id, conns) ==
  [id |-> id, name |-> u[id].name, x |-> u[id].x, z |-> u[id].z,
   connections |-> conns]

\* cache files left by an earlier session: system 2 alone; systems 1 and 2,
\* where all stargate requests of system 2 had failed
SavedCacheFiles(u) ==
  { Put(<<>>, Str(2), CacheEntry(u, 2, u[2].stargates)),
    Put(Put(<<>>, Str(1), CacheEntry(u, 1, u[1].stargates)),
        Str(2), CacheEntry(u, 2, <<>>)) }

\* _load_cache, lines 20-29: the cache file, read back
LoadNodeCache(file) == file

\* a Cartographer constructed on the cache file of an earlier session
InitWarm ==
  /\ InitAudio
  /\ universe \in Universes
  /\ has_manager \in BOOLEAN
  /\ jb_file \in (IF has_manager THEN SavedBridgeFiles ELSE {<<>>})
  /\ bridges = LoadBridges(jb_file)
  /\ last_op = [op |-> "load", a |-> <<"int", 1>>, b |-> <<"int", 1>>]
  /\ store_error = "none"
  /\ cache_file \in SavedCacheFiles(universe)
  /\ system_cache = LoadNodeCache(cache_file)
  /\ cpc = "idle"
  /\ center = 1
  /\ max_jumps = 0
  /\ local_map = <<>>
  /\ queue = <<>>
  /\ visited = {}
  /\ cache_updated = FALSE
  /\ center_pos = <<0, 0>>
  /\ result = <<>>
  /\ failed = {}
  /\ fetched = {}
  /\ enq_count = [n \in Nodes |-> 0]
  /\ writes = 0
  /\ passes = 0
  /\ save_size = 0
  /\ file_whole = TRUE
  /\ shared = {}
  /\ RestAtRest

SpecSeq == InitSeq /\ [][NextSeq]_vars
SpecConc == InitSeq /\ [][NextConc]_vars
SpecTouch == InitSeq /\ [][NextTouch]_vars
\* the worker thread is scheduled again and again
FairSeq == InitSeq /\ [][NextFew]_vars /\ WF_vars(WorkerPop) /\ WF_vars(WorkerPlay)
\* the same with a speech engine that may fail: the worker thread keeps being
\* scheduled, and each _play_alert returns, one way or the other
FairPlay ==
  /\ InitSeq
  /\ [][NextPlay]_vars
  /\ WF_vars(WorkerPop)
  /\ WF_vars(WorkerPlay \/ WorkerPlayFails)
FairFail ==
  /\ InitSeq
  /\ [][NextFail]_vars
  /\ WF_vars(WorkerPop)
  /\ WF_vars(WorkerPlay \/ WorkerPlayFails)
SpecStore == InitStore /\ [][NextStore]_vars

\* the ids given to the store on such a disk
DiskInputs == {IntId(n) : n \in BridgeNodes}

\* the bridge store on a disk that may refuse a read or a write; a session
\* whose operation raised is over, and the next one begins with a load
NextDisk ==
  \/ \E ra, rb \in DiskInputs : store_error = "none" /\ AddBridge(ra, rb)
  \/ \E ra, rb \in DiskInputs : store_error = "none" /\ RemoveBridge(ra, rb)
  \/ ReloadBridges
  \/ \E ra, rb \in DiskInputs : store_error = "none" /\ AddBridgeUnwritable(ra, rb)
  \/ \E ra, rb \in DiskInputs : store_error = "none" /\ RemoveBridgeUnwritable(ra, rb)
  \/ ReloadUnreadable

SpecDisk == InitStore /\ [][NextDisk]_vars
SpecCarto == InitCarto /\ [][NextCarto]_vars
SpecWarm == InitWarm /\ [][NextCarto]_vars

\* _save_cache, line 33, entered from get_local_map, lines 147-148: open(...,
\* "w") cuts the cache file to nothing, and json.dump begins to iterate the
\* cache
SaveOpen ==
  /\ cpc = "loop"
  /\ queue = <<>>
  /\ cache_updated
  /\ cache_file' = <<>>
  /\ file_whole' = FALSE
  /\ save_size' = Cardinality(DOMAIN system_cache)
  /\ cpc' = "saving"
  /\ UNCHANGED <<universe, has_manager, system_cache, center, max_jumps,
                 local_map, queue, visited, cache_updated, center_pos, result,
                 failed, fetched, enq_count, writes, passes, shared>>
  /\ UNCHANGED bridgeVars
  /\ UNCHANGED <<audioVars, restVars>>

\* _save_cache, line 34: json.dump with an indent walks the dict entry by
\* entry and writes each one. The dict iterator raises RuntimeError when the
\* size of the dict is no longer the size it began with; nothing in
\* get_local_map catches it, and the file keeps what was written so far. With
\* every entry written the document is closed and get_local_map returns
SaveEntry ==
  /\ cpc = "saving"
  /\ IF Cardinality(DOMAIN system_cache) # save_size
     THEN /\ cpc' = "raised"
          /\ UNCHANGED <<cache_file, file_whole, writes, result>>
     ELSE IF DOMAIN cache_file = DOMAIN system_cache
          THEN /\ file_whole' = TRUE
               /\ writes' = writes + 1
               /\ result' = local_map
               /\ cpc' = "idle"
               /\ UNCHANGED cache_file
          ELSE /\ \E k \in DOMAIN system_cache \ DOMAIN cache_file :
                    cache_file' = Put(cache_file, k, system_cache[k])
               /\ UNCHANGED <<cpc, file_whole, writes, result>>
  /\ UNCHANGED <<universe, has_manager, system_cache, center, max_jumps,
                 local_map, queue, visited, cache_updated, center_pos, failed,
                 fetched, enq_count, passes, save_size, shared>>
  /\ UNCHANGED bridgeVars
  /\ UNCHANGED <<audioVars, restVars>>

\* _fetch_system_data, lines 41-78, called by a second get_local_map on the
\* same Cartographer while the first one runs: a system that is not cached
\* is fetched and put into the shared cache
OtherFetch ==
  /\ cpc \in {"loop", "saving"}
  /\ \E id \in Nodes :
       /\ Str(id) \notin DOMAIN system_cache
       /\ \E r \in FetchResults(system_cache, universe, id) :
            /\ r # NoData
            /\ system_cache' = CacheAfter(system_cache, id, r)
  /\ UNCHANGED <<universe, has_manager, cache_file, cpc, center, max_jumps,
                 local_map, queue, visited, cache_updated, center_pos, result,
                 failed, fetched, enq_count, writes, passes, save_size,
                 file_whole, shared>>
  /\ UNCHANGED bridgeVars
  /\ UNCHANGED <<audioVars, restVars>>

\* two passes on one Cartographer: the steps of the first, its save taken
\* write by write, and the cache insertions of the second
NextRace ==
  \/ \E c \in Nodes, n \in 0..MaxRadius : StartPass(c, n)
  \/ LoopStep
  \/ SaveOpen
  \/ SaveEntry
  \/ OtherFetch

SpecRace == InitCarto /\ [][NextRace]_vars

\* the map as its holder reads it after the store has changed to b: the
\* entries of sh show the manager's list, which add_bridge, lines 46-49, and
\* remove_bridge, lines 63-68, change by append and remove on the object
Through(map, sh, b) ==
  [n \in DOMAIN map |->
     IF n \in sh THEN [map[n] EXCEPT !.jump_bridges = b[n]] ELSE map[n]]

\* add_bridge or remove_bridge on the manager of the Cartographer after
\* get_local_map has returned a map; b is the store after the operation
StoreOpAfterMap(op, ra, rb, b) ==
  /\ cpc = "idle"
  /\ result # <<>>
  /\ bridges' = b
  /\ jb_file' = IF b # bridges \/ op = "add" THEN SaveBridges(b) ELSE jb_file
  /\ last_op' = [op |-> op, a |-> ra, b |-> rb]
  /\ store_error' = "none"
  /\ result' = Through(result, shared, b)
  /\ local_map' = Through(local_map, shared, b)
  /\ UNCHANGED <<universe, has_manager, system_cache, cache_file, cpc, center,
                 max_jumps, queue, visited, cache_updated, center_pos, failed,
                 fetched, enq_count, writes, passes, save_size, file_whole,
                 shared>>
  /\ UNCHANGED <<audioVars, restVars>>

AddBridgeAfterMap(ra, rb) ==
  has_manager /\ StoreOpAfterMap("add", ra, rb, AddBridgeTo(bridges, ra, rb))

RemoveBridgeAfterMap(ra, rb) ==
  has_manager /\ StoreOpAfterMap("remove", ra, rb, RemoveBridgeFrom(bridges, ra, rb))

\* passes of a Cartographer, and the first change of its manager's store
\* since the store was loaded
NextSnap ==
  \/ \E c \in Nodes, n \in 0..MaxRadius : StartPass(c, n)
  \/ LoopStep
  \/ EndPass
  \/ \E ra, rb \in DiskInputs : last_op.op = "load" /\ AddBridgeAfterMap(ra, rb)
  \/ \E ra, rb \in DiskInputs : last_op.op = "load" /\ RemoveBridgeAfterMap(ra, rb)

SpecSnap == InitCarto /\ [][NextSnap]_vars
\* the threat profiler alone
InitProf ==
  InitAudio /\ InitBridge /\ CartoAtRest /\ InitProfiler /\ ParserAtRest /\ TailerAtRest
SpecProf == InitProf /\ [][NextProfiler]_vars
\* the threat profiler classifying combat statistics
SpecClassify == InitProf /\ [][NextClassify]_vars
\* the line parser alone
InitParse ==
  InitAudio /\ InitBridge /\ CartoAtRest /\ ProfAtRest /\ InitParser /\ TailerAtRest
SpecParse == InitParse /\ [][NextParser]_vars
\* the log tailer alone
InitTail ==
  InitAudio /\ InitBridge /\ CartoAtRest /\ ProfAtRest /\ ParserAtRest /\ InitTailer
SpecTail == InitTail /\ [][NextTailer]_vars
\* watch left to run: the game writes, the loop of lines 85-104 comes round
\* again and again, nobody interrupts it
NextWatch ==
  \/ \E p \in LogFiles : CreateLog(p)
  \/ \E p \in LogFiles : WriteLine(p)
  \/ StartWatch
  \/ Poll
FairTail == InitTail /\ [][NextWatch]_vars /\ WF_vars(StartWatch) /\ WF_vars(Poll)
\* the log tailer inside the worker thread of the window
SpecWorker == InitTail /\ [][NextWorker]_vars
\* the file object of a log that was empty when it was opened
SpecLines == InitTail /\ [][NextLines]_vars
\* a Cartographer on a universe with a cycle, whose manager loaded the file
\* with the doubling bridge and the bridge from a system to itself
InitCyclic ==
  /\ InitCarto
  /\ universe[1].stargates = <<2, 3>>
  /\ has_manager
  /\ Contains(GetBridges(bridges, IntId(3)), 3)

\* a running pass goes on: its fetches return
FairCarto ==
  InitCyclic /\ [][NextCarto]_vars /\ WF_vars(LoopStep) /\ WF_vars(EndPass)

Init == InitSeq
Next == NextSeq
Spec == SpecSeq

(* ------------------------- alert dispatcher claims ---------------------- *)
\* the instructions enqueued so far, in the order of their append
EnqueuedInstrs == [i \in 1..Len(enqueued) |-> enqueued[i].ins]

\* the instruction the worker has taken and not yet played
InHand == IF wpc = "play" THEN <<alert>> ELSE <<>>

\* the tier the dispatcher contract gives a hop distance in 0..9
ContractTier(j) ==
  CASE j = 0 -> "CRITICAL"
    [] j \in 1..4 -> "HIGH"
    [] j \in 5..9 -> "LOW"
    [] OTHER -> "NONE"

\* the previous accepted call for the key of p's call was one that enqueued
PrevEnqueued(p) ==
  \E i \in 1..Len(enqueued) :
    /\ enqueued[i].ins.system = args[p].system
    /\ enqueued[i].tick = lastAcceptTick[args[p].system]

\* C1: two calls for one key, hostile and with hop distance 0..9: the second
\* is dropped when it comes less than 30 seconds after the first and is
\* enqueued when it comes 31 or more seconds after it.
C1_Cooldown ==
  [][\A p \in Producers :
       (ppc[p] = "L47" /\ ppc'[p] # "L47" /\ args[p].jumps \in 0..9 /\ PrevEnqueued(p))
       => LET gap == tick[p] - lastAcceptTick[args[p].system]
          IN /\ gap < COOLDOWN_SECONDS * Res => ppc'[p] = "idle"
             /\ gap >= (COOLDOWN_SECONDS + 1) * Res => ppc'[p] = "L54"]_vars

\* C2: with concurrent producers no two instructions for one key are
\* enqueued with timestamps less than 30 seconds apart, and once every call
\* has returned the cooldown map holds no timestamp older than an accepted
\* alert of the key (no update is lost).
C2_NoLostUpdate ==
  /\ \A i, j \in 1..Len(enqueued) :
       (i < j /\ enqueued[i].ins.system = enqueued[j].ins.system)
       => enqueued[j].stamp - enqueued[i].stamp >= COOLDOWN_SECONDS
  /\ (\A p \in Producers : ppc[p] = "idle")
     => \A i \in 1..Len(enqueued) :
          Get(cooldown_cache, enqueued[i].ins.system, 0) >= enqueued[i].stamp

\* C3 as stated: every call that passes the three filters appends exactly
\* one instruction, with the tier of its hop distance.
C3_Original ==
  [][\A p \in Producers :
       (ppc[p] = "L54" /\ ppc'[p] # "L54")
       => /\ ContractTier(args[p].jumps) # "NONE"
          /\ message_queue' = Append(message_queue,
                 [level |-> ContractTier(args[p].jumps), system |-> args[p].system,
                  jumps |-> args[p].jumps])]_vars

\* C3 amended: every call with a hop distance in 0..9 that passes the three
\* filters appends exactly one instruction {tier, key, hops}: Critical for 0,
\* High for 1..4, Low for 5..9.
C3_Tiers ==
  [][\A p \in Producers :
       (ppc[p] = "L54" /\ ppc'[p] # "L54" /\ args[p].jumps \in 0..9)
       => message_queue' = Append(message_queue,
              [level |-> ContractTier(args[p].jumps), system |-> args[p].system,
               jumps |-> args[p].jumps])]_vars

C3_Witness ==
  /\ Len(enqueued) = 2
  /\ enqueued[1].ins.level = "HIGH" /\ enqueued[1].ins.jumps = 4
  /\ enqueued[2].ins.level = "LOW" /\ enqueued[2].ins.jumps = 5
  /\ last_outcome = "queued"

\* C4: the worker plays the instructions in the order of their enqueueing,
\* whatever their tiers.
C4_Fifo ==
  /\ Len(played) <= Len(enqueued)
  /\ \A i \in 1..Len(played) : played[i] = enqueued[i].ins

C4_Witness ==
  /\ Len(played) = 2
  /\ played[1].level = "LOW"
  /\ played[2].level = "CRITICAL"

\* C5: every enqueued instruction is taken from the queue exactly once (it is
\* played, in the worker's hand, or still queued, never two of these) and,
\* with the worker scheduled fairly, is eventually played.
C5_ExactlyOnce ==
  /\ [](played \o InHand \o message_queue = EnqueuedInstrs)
  /\ \A n \in 1..MaxAlerts :
       (Len(enqueued) >= n) ~> (Len(played) >= n /\ played[n] = enqueued[n].ins)

C5_Witness ==
  /\ Len(played) = 1
  /\ wpc = "play"
  /\ message_queue = <<>>
  /\ last_outcome = "queued"

\* C6: a friendly call, or one with hop distance >= 10, returns at once and
\* leaves the queue and the cooldown map as they were.
C6_Dropped ==
  [][\A p \in Producers :
       (ppc[p] = "L36" /\ ppc'[p] # "L36" /\ (args[p].friendly \/ args[p].jumps >= 10))
       => /\ ppc'[p] = "idle"
          /\ UNCHANGED <<message_queue, cooldown_cache, enqueued>>]_vars

C6_Witness ==
  /\ last_outcome = "filtered"
  /\ message_queue # <<>>
  /\ cooldown_cache # <<>>
(* --------------------------- topology mapper claims --------------------- *)
\* the neighbours of a node in the true graph: all stargates of the universe
\* and the bridges of the manager
TrueNeighbors(n) ==
  Elems(universe[n].stargates) \cup
  (IF has_manager THEN Elems(GetBridges(bridges, IntId(n))) ELSE {})

\* the nodes at true hop distance <= k of node c
RECURSIVE TrueBall(_, _)
TrueBall(c, k) ==
  IF k = 0 THEN {c}
  ELSE LET inner == TrueBall(c, k - 1)
       IN inner \cup UNION {TrueNeighbors(n) : n \in inner}

\* the nodes within k hops of c along paths whose inner nodes are all in
\* the snapshot m, by the neighbour lists the snapshot reports
RECURSIVE FetchedBall(_, _, _)
FetchedBall(m, c, k) ==
  IF k = 0 THEN {c}
  ELSE LET inner == FetchedBall(m, c, k - 1)
       IN inner \cup UNION {Elems(m[n].stargates) \cup Elems(m[n].jump_bridges) :
                              n \in inner \cap DOMAIN m}

\* a pass has returned
Returned == cpc = "idle" /\ passes > 0

\* no request of the pass failed: no fetch returned None and no stargate
\* was left out of a node's connections
NoFailure ==
  /\ failed = {}
  /\ \A n \in DOMAIN result : result[n].stargates = universe[n].stargates

\* C7: the map never holds a node farther than max_jumps from the center in
\* the true graph; the returned snapshot holds every node within max_jumps
\* whose fetch succeeded, and all nodes within max_jumps when nothing failed.
C7_Bound ==
  /\ \A n \in DOMAIN local_map : n \in TrueBall(center, max_jumps)
  /\ Returned =>
       /\ \A n \in DOMAIN result : n \in TrueBall(center, max_jumps)
       /\ \A n \in TrueBall(center, max_jumps) : n \in fetched => n \in DOMAIN result
       /\ NoFailure => DOMAIN result = TrueBall(center, max_jumps)

C7_Witness ==
  /\ Returned
  /\ has_manager
  /\ max_jumps = 1
  /\ Cardinality(DOMAIN result) = 3
  /\ \E n \in DOMAIN result : result[n].jump_bridges # <<>>
  /\ \E n \in Nodes : n \notin TrueBall(center, max_jumps)

\* C8: a node whose fetch failed has no entry, and every node within
\* max_jumps of the center through fetched nodes is in the returned snapshot
\* unless its own fetch failed.
C8_SkipOnly ==
  Returned =>
    /\ failed \cap DOMAIN result = {}
    /\ FetchedBall(result, center, max_jumps) \ failed \subseteq DOMAIN result

C8_Witness ==
  /\ Returned
  /\ center \in DOMAIN result
  /\ \E f \in failed : \E n \in DOMAIN result :
       /\ result[n].jumps = 2
       /\ f \in FetchedBall(result, center, 1)

\* C9: during a pass the visited set only grows, no id is put on the
\* frontier twice, every iteration brings the search nearer to its end, and
\* every pass that runs returns.
\* what is left of the search: ids not yet visited count twice, ids on the
\* frontier once
SearchLeft(vis, q) == 2 * Cardinality(Nodes \ vis) + Len(q)

C9_Terminates ==
  /\ [][cpc = "loop" /\ cpc' = "loop"
        => /\ visited \subseteq visited'
           /\ \A n \in Nodes : enq_count'[n] <= 1
           /\ SearchLeft(visited', queue') < SearchLeft(visited, queue)]_vars
  /\ (cpc = "loop") ~> (cpc = "idle")

C9_Witness ==
  /\ Returned
  /\ Cardinality(DOMAIN result) = 4
  /\ \E n \in DOMAIN result : Contains(result[n].jump_bridges, n)
  /\ \E n \in DOMAIN result :
       Elems(result[n].jump_bridges) \cap Elems(result[n].stargates) # {}

(* ----------------------------- bridge store claims ---------------------- *)
\* C10: B is in get_bridges(A) exactly when A is in get_bridges(B); after
\* add_bridge(A, B) each holds the other, after remove_bridge(A, B) neither.
C10_Symmetric ==
  /\ \A ra, rb \in IdInputs :
       Contains(GetBridges(bridges, ra), ToInt(rb))
       <=> Contains(GetBridges(bridges, rb), ToInt(ra))
  /\ last_op.op = "add" =>
       /\ Contains(GetBridges(bridges, last_op.a), ToInt(last_op.b))
       /\ Contains(GetBridges(bridges, last_op.b), ToInt(last_op.a))
  /\ last_op.op = "remove" =>
       /\ ~Contains(GetBridges(bridges, last_op.a), ToInt(last_op.b))
       /\ ~Contains(GetBridges(bridges, last_op.b), ToInt(last_op.a))

C10_Witness ==
  /\ last_op.op = "remove"
  /\ last_op.a[1] = "str"
  /\ ToInt(last_op.a) # ToInt(last_op.b)
  /\ ToInt(last_op.a) \in DOMAIN bridges
  /\ bridges[ToInt(last_op.a)] # <<>>
  /\ jb_file = SaveBridges(bridges)

(* ----------------------------- profiler claims -------------------------- *)
\* two names that differ in letter case at most
SameButCase(n1, n2) ==
  /\ Len(n1) = Len(n2)
  /\ \A i \in DOMAIN n1 :
       \/ n1[i] = n2[i]
       \/ \E k \in DOMAIN Lowers : {n1[i], n2[i]} = {Lowers[k], Uppers[k]}

\* the step is a profile_player call
ProfileCall == tp_count' = tp_count + 1

\* the cache entries of an actor
EntriesOf(cache, name) == {k \in DOMAIN cache : SameButCase(k, name)}

\* C11: a profile call for an actor whose cache entry is more than 24 hours
\* old does not answer from that entry: it runs the resolution pipeline.
C11_StaleRefetched ==
  [][ProfileCall
       /\ (\E k \in EntriesOf(tp_cache, tp_last'.name) :
             tp_now - tp_cache[k].timestamp > TTL)
     => tp_last'.calls # <<>>]_vars

\* C12: a call for an actor that got Friendly or a classification from the
\* pipeline less than 24 hours ago, under a name that differs in case at
\* most, returns that label and invokes no collaborator.
C12_CacheFirst ==
  [][ProfileCall
     => \A g \in DOMAIN tp_given :
          SameButCase(g, tp_last'.name) /\ tp_now - tp_given[g].at < TTL
          => /\ tp_last'.calls = <<>>
             /\ tp_last'.label = tp_given[g].label]_vars

\* a call answered from the cache, later than and in another case than the
\* call that ran the pipeline
C12_Witness ==
  /\ tp_last.calls = <<>>
  /\ tp_last.label.kind = "PERFIL"
  /\ tp_last.name \notin DOMAIN tp_given
  /\ \E g \in DOMAIN tp_given :
       /\ SameButCase(g, tp_last.name)
       /\ tp_given[g].at < tp_last.at
       /\ tp_last.at - tp_given[g].at < TTL

\* C13: a call that ends in NotFound or NoHistory leaves the cache and its
\* file as they were, without an entry for the actor, and the next call for
\* the same actor runs the pipeline again.
C13_NoPoison ==
  /\ [][ProfileCall /\ tp_last'.label \in {NotFound, NoHistory}
        => /\ tp_cache' = tp_cache
           /\ tp_file' = tp_file
           /\ tp_last'.calls # <<>>
           /\ EntriesOf(tp_cache', tp_last'.name) = {}]_vars
  /\ [][ProfileCall /\ tp_count > 0 /\ tp_last.label \in {NotFound, NoHistory}
          /\ SameButCase(tp_last.name, tp_last'.name)
        => tp_last'.calls # <<>>]_vars

\* a second call ended in NoHistory and the cache still holds what the first
\* one stored
C13_Witness ==
  /\ tp_count = 2
  /\ tp_last.label = NoHistory
  /\ tp_cache # <<>>
  /\ tp_file = tp_cache
  /\ DOMAIN tp_given # {}

(* ------------------------------ parser claims --------------------------- *)
\* the line s is "[", whitespace, whitespace, "]" at k, whitespace,
\* whitespace, ">" at g, whitespace and a message, with room for a timestamp
\* and an author between the runs of whitespace
FormAt(s, k, g) ==
  /\ s[1] = "[" /\ s[k] = "]" /\ s[g] = ">"
  /\ k >= 4 /\ IsSpace(s[2]) /\ IsSpace(s[k - 1])
  /\ g >= k + 3 /\ IsSpace(s[k + 1]) /\ IsSpace(s[g - 1])
  /\ g < Len(s) /\ IsSpace(s[g + 1])

WellFormed(s) == \E k, g \in DOMAIN s : FormAt(s, k, g)

NoChar(s, c) == \A i \in DOMAIN s : s[i] # c

\* C16: a line that, trimmed, has the form "[ T ] A > M" is parsed into a
\* record with timestamp T and author A (T is read up to the first "]", A
\* up to the first ">", both without the whitespace around them); every
\* other line gives None.
C16_Envelope ==
  ps_pc = "done" =>
    LET s == Strip(raw_line)
    IN /\ record.parsed <=> WellFormed(s)
       /\ \A k, g \in DOMAIN s :
            LET T == Strip(Slice(s, 2, k - 1))
                A == Strip(Slice(s, k + 1, g - 1))
            IN FormAt(s, k, g) /\ NoChar(T, "]") /\ NoChar(A, ">")
               => record.timestamp = T /\ record.author = A

\* the tokens of the lower-cased message
LowerTokens(msg) == Split(Lower(msg))
HasClearToken(msg) == \E w \in {<<"c", "l", "r">>, <<"c", "l", "e", "a",
    "r">>} : Contains(LowerTokens(msg), w)
HasNvToken(msg) == Contains(LowerTokens(msg), <<"n", "v">>)
\* "no" as a token, and right after it a token that begins with "vis"
HasNoVisWords(msg) ==
  \E i \in 1..(Len(LowerTokens(msg)) - 1) :
    LowerTokens(msg)[i] = <<"n", "o">> /\ StartsWith(LowerTokens(msg)[i + 1],
        <<"v", "i", "s">>)

\* C17: the status is Clear when a token is clr or clear; otherwise NoVisual
\* when a token is nv or the message holds the phrase "no vis"; otherwise
\* Hostile, also when a keyword is only part of a longer token.
C17_Status ==
  ps_pc = "done" /\ record.parsed =>
    LET msg == record.raw_message
    IN /\ HasClearToken(msg) => record.status = "clear"
       /\ ~HasClearToken(msg)
            /\ (HasNvToken(msg) \/ HasSub(Lower(msg), <<"n", "o", " ", "v",
                "i", "s">>))
            /\ (HasNvToken(msg) \/ HasNoVisWords(msg))
          => record.status = "no_vis"
       /\ ~HasClearToken(msg) /\ ~HasNvToken(msg) /\ ~HasNoVisWords(msg)
          => record.status = "hostile"

\* the places of the tokens that are known systems, whatever their case
KnownPlaces(words, known) ==
  {i \in DOMAIN words : \E n \in known : SameButCase(words[i], n)}

\* C18: in dictionary mode the location comes from the first token that is
\* a known system: the token itself when it is all upper case, otherwise the
\* token in title case; None when no token is known. "VFK-IV nv" gives
\* VFK-IV and NoVisual.
C18_DictLocation ==
  ps_pc = "done" /\ record.parsed /\ known_systems # {} =>
    LET words == Split(record.raw_message)
        hits == KnownPlaces(words, known_systems)
    IN /\ hits = {} => record.system = NoSystem
       /\ \A i \in hits :
            (\A j \in hits : i <= j) =>
              LET w == words[i]
              IN /\ SameButCase(record.system, w)
                 /\ IF (\A p \in DOMAIN w : ~IsLowerChar(w[p]))
                       /\ (\E p \in DOMAIN w : IsUpperChar(w[p]))
                    THEN record.system = w
                    ELSE \A p \in DOMAIN w :
                           IsLetter(w[p]) =>
                             (IsUpperChar(record.system[p])
                                <=> (p = 1 \/ ~IsLetter(w[p - 1])))
       /\ record.raw_message = <<"V", "F", "K", "-", "I", "V", " ", "n",
           "v">> /\ <<"v", "f", "k", "-", "i", "v">> \in known_systems
          => record.system = <<"V", "F", "K", "-", "I",
              "V">> /\ record.status = "no_vis"

\* the second token was the first known one and came out in title case
C18_Witness ==
  /\ ps_pc = "done"
  /\ record.raw_message = <<"c", "a", "s", "i", "n", "o", " ", " ", "1", "d",
      "q", "1", "-", "a">>
  /\ record.system = <<"1", "D", "q", "1", "-", "A">>

(* ------------------------- claims on the log tailer --------------------- *)
\* C14: a failed open never ends the poll loop: while the latest open of some
\* channel has failed, watch is still running and no read has raised on the
\* file object that the failed pass left behind.
C14_KeepsTailing == tl_failed # {} => tl_error # "ValueError"

\* a discovery pass ran in this step
Discovered ==
  \/ tl_pc = "start" /\ tl_pc' # "start"
  \/ tl_pc = "loop" /\ loop_counter # 0 /\ loop_counter' = 0

\* the file objects that active_log_files holds and that are not closed
OpenHandles == {ch \in DOMAIN active_log_files : ~active_log_files[ch].closed}

\* C15: after a discovery pass every channel whose latest file could be
\* opened reads that file, from its end at the time of the open; the file
\* objects left open are exactly the ones active_log_files holds (the old
\* ones were closed); and no line that was in a file when it was opened is
\* delivered afterwards.
C15_NoReplay ==
  [][/\ Discovered =>
          \A ch \in ChannelSet \ tl_failed' :
            LatestLog(tl_mtimes, ch) # NoFile =>
              /\ ch \in DOMAIN active_log_files'
              /\ active_log_files'[ch].path = LatestLog(tl_mtimes, ch)
              /\ active_log_files'[ch].first = tl_seen'[LatestLog(tl_mtimes, ch)]
     /\ tl_opens' = Cardinality(OpenHandles')
     /\ \A x \in delivered' \ delivered : x[3] > tl_seen'[x[2]]]_vars

\* channel A was rotated to a second file that already had a line, the first
\* file's handle was closed, and lines of a file opened empty were delivered
C15_Witness ==
  /\ "A" \in DOMAIN active_log_files
  /\ active_log_files["A"].path = "A_2.txt"
  /\ active_log_files["A"].first = 1
  /\ tl_opens = Cardinality(DOMAIN active_log_files)
  /\ delivered # {}

(* ---------------------- claims on playback failures --------------------- *)
\* C19: a _speak that raises neither ends the playback worker nor holds up
\* the queue: the worker never dies, the instructions keep their order
\* through the queue, and with the worker scheduled fairly every enqueued
\* instruction is handed to playback, whatever failed before or after it.
C19_FailureTolerated ==
  /\ [](wpc # "dead")
  /\ [](played \o InHand \o message_queue = EnqueuedInstrs)
  /\ \A n \in 1..MaxAlerts :
       (Len(enqueued) >= n) ~>
         (Len(played) >= n /\ played[n] = enqueued[n].ins /\ wpc # "dead")

\* the first instruction failed in _speak and the second was spoken after it
C19_Witness ==
  /\ speak_errors = {1}
  /\ Len(played) = 2
  /\ wpc = "poll"

(* ------------------------- claims on the node cache --------------------- *)
\* the system whose data the step asks _fetch_system_data for, 0 if none
Asked ==
  IF cpc = "idle" /\ passes' # passes THEN center'
  ELSE IF cpc = "loop" /\ queue # <<>> THEN Head(queue)[1]
  ELSE 0

\* C20: the node cache only grows, and a cached system is answered from the
\* cache. No step removes or changes an entry; and when a pass asks for a
\* system that is cached, the fetch cannot fail and the map entry is built
\* from the cached name, position and stargate list, whatever ESI would
\* answer now.
C20_AppendOnly ==
  [][/\ \A k \in DOMAIN system_cache :
          k \in DOMAIN system_cache' /\ system_cache'[k] = system_cache[k]
     /\ (Asked # 0 /\ Str(Asked) \in DOMAIN system_cache) =>
          LET e == system_cache[Str(Asked)]
          IN /\ Asked \notin failed'
             /\ cpc' = "loop"
             /\ cpc = "idle" => center_pos' = <<e.x, e.z>>
             /\ cpc = "loop" =>
                  /\ Asked \in DOMAIN local_map'
                  /\ local_map'[Asked].name = e.name
                  /\ local_map'[Asked].stargates = e.connections
                  /\ local_map'[Asked].x_rel = e.x - center_pos[1]
                  /\ local_map'[Asked].z_rel = e.z - center_pos[2]]_vars

\* system 2 was cached by an earlier session with no stargates, a pass put
\* it on the map from the cache although ESI lists stargates for it, and the
\* pass cached another system next to it
C20_Witness ==
  /\ 2 \in DOMAIN local_map
  /\ local_map[2].stargates = <<>>
  /\ universe[2].stargates # <<>>
  /\ Str(2) \in DOMAIN system_cache
  /\ system_cache[Str(2)].connections = <<>>
  /\ Str(3) \in DOMAIN system_cache

(* ------------------------ claims on the two edge lists ------------------ *)
\* the bridges declared for system n, as the store holds them
DeclaredBridges(n) ==
  IF has_manager /\ n \in DOMAIN bridges THEN bridges[n] ELSE <<>>

\* m is joined to n by a declared bridge and by no stargate
BridgeOnly(n, m) ==
  Contains(DeclaredBridges(n), m) /\ ~Contains(universe[n].stargates, m)

\* C21: every system on the map carries its cached stargate list and its
\* declared bridges, in two separate lists; no system is put on the frontier
\* twice, also when a stargate and a bridge both lead to it; and a neighbour
\* joined by a bridge only is in the bridge list and not in the stargate
\* list, at both ends of the bridge.
C21_TwoLists ==
  /\ \A n \in DOMAIN local_map :
       /\ local_map[n].stargates = system_cache[Str(n)].connections
       /\ local_map[n].jump_bridges = DeclaredBridges(n)
       /\ \A m \in Nodes :
            BridgeOnly(n, m) =>
              /\ Contains(local_map[n].jump_bridges, m)
              /\ ~Contains(local_map[n].stargates, m)
              /\ m \in DOMAIN local_map =>
                   /\ Contains(local_map[m].jump_bridges, n)
                   /\ ~Contains(local_map[m].stargates, n)
  /\ \A m \in Nodes : enq_count[m] <= 1

\* systems 1, 2 and 4 are on the map; 2 is a stargate and a bridge neighbour
\* of 1 and was enqueued once; 2 and 4 are joined by a bridge only and each
\* lists the other among its bridges
C21_Witness ==
  /\ {1, 2, 4} \subseteq DOMAIN local_map
  /\ Contains(local_map[1].stargates, 2)
  /\ Contains(local_map[1].jump_bridges, 2)
  /\ enq_count[2] = 1
  /\ BridgeOnly(2, 4)
  /\ Contains(local_map[2].jump_bridges, 4)
  /\ Contains(local_map[4].jump_bridges, 2)

(* ------------------------ claims on friendly actors --------------------- *)
\* the call of this step ran the pipeline, the name was resolved and the
\* alliance fetched is the configured one
FriendlyAnswer ==
  /\ ProfileCall
  /\ EntriesOf(tp_cache, tp_last'.name) = {}
  /\ tp_last'.ans[1] # 0
  /\ my_alliance_id # 0
  /\ tp_last'.ans[2] = my_alliance_id

\* C22: a call that resolves the name and fetches the home alliance returns
\* Friendly without asking for combat statistics and leaves a friendly entry
\* stamped now, in the cache and in the file; the file keeps that entry, so
\* that also after a restart every call for the actor less than 24 hours
\* after it returns Friendly from the cache.
C22_Friendly ==
  [][/\ FriendlyAnswer
        => /\ tp_last'.label = Friendly
           /\ tp_last'.calls = <<"resolve", "alliance">>
           /\ tp_cache'[Lower(tp_last'.name)] = FriendlyEntry(tp_now)
           /\ tp_file' = tp_cache'
     /\ ProfileCall
        => \A g \in DOMAIN tp_given :
             /\ SameButCase(g, tp_last'.name)
             /\ tp_given[g].label = Friendly
             /\ tp_now - tp_given[g].at < TTL
             => /\ tp_last'.label = Friendly
                /\ tp_last'.calls = <<>>
                /\ tp_cache' = tp_cache
     /\ \A g \in DOMAIN tp_given' :
          tp_given'[g].label = Friendly /\ tp_now' - tp_given'[g].at < TTL
          => /\ Lower(g) \in DOMAIN tp_file'
             /\ tp_file'[Lower(g)].is_friendly]_vars

\* a call was answered Friendly from the cache, later than the call that
\* fetched the home alliance for the actor
C22_Witness ==
  /\ tp_last.label = Friendly
  /\ tp_last.calls = <<>>
  /\ \E g \in DOMAIN tp_given :
       /\ SameButCase(g, tp_last.name)
       /\ tp_given[g].label = Friendly
       /\ tp_given[g].at < tp_last.at

(* ------------------------- claims on classification --------------------- *)
\* the three most-used vessels of a shipType list
TopThree(ships) == {ships[i] : i \in 1..(IF Len(ships) < 3 THEN Len(ships) ELSE 3)}

\* the role tags whose vessel set holds one of the vessels vs
RoleTags(vs) ==
  {"TACKLE/INTERDICTOR" : x \in vs \cap SHIPS_TACKLE} \cup
  {"BLOPS/DROPPER" : x \in vs \cap SHIPS_BLOPS} \cup
  {"BOMBER" : x \in vs \cap SHIPS_BOMBER} \cup
  {"KITE/HUNTER" : x \in vs \cap SHIPS_HUNTER}

\* C23: a call that classifies statistics returns the most-used vessel as the
\* ship and, as the tag, each role tag that one of the three most-used
\* vessels has, once, or the generic tag when there is none, with the
\* dangerous suffix exactly when the danger ratio is above 80; and it caches
\* that pair.
C23_TopThree ==
  [][ProfileCall /\ tp_last'.calls # <<>> /\ tp_last'.label.kind = "PERFIL"
     => LET zk == tp_last'.ans[3]
            lab == tp_last'.label
            roles == RoleTags(TopThree(zk.ships))
            e == tp_cache'[Lower(tp_last'.name)]
        IN /\ lab.ship = zk.ships[1]
           /\ {lab.tag.tags[i] : i \in DOMAIN lab.tag.tags}
                = (IF roles = {} THEN {"General PVP"} ELSE roles)
           /\ Len(lab.tag.tags) = (IF roles = {} THEN 1 ELSE Cardinality(roles))
           /\ lab.tag.peligroso = (zk.danger > 80)
           /\ e.top_ship = lab.ship
           /\ e.threat_tag = lab.tag]_vars

(* --------------------- claims on the stages of a call ------------------- *)
\* C24: a profile call asks each collaborator at most once, in the order
\* name resolution, alliance, combat statistics, and stops at the stage that
\* decides the label: none for a cache hit, resolution for NotFound, the
\* alliance for Friendly, the statistics for NoHistory and for a
\* classification.
C24_Terminal ==
  [][ProfileCall
     => LET c == tp_last'.calls
            hit == EntriesOf(tp_cache, tp_last'.name) # {}
        IN /\ c \in {<<>>, <<"resolve">>, <<"resolve", "alliance">>,
                     <<"resolve", "alliance", "zkill">>}
           /\ hit <=> c = <<>>
           /\ (~hit /\ tp_last'.ans[1] = 0)
                <=> (c = <<"resolve">> /\ tp_last'.label = NotFound)
           /\ (~hit /\ tp_last'.label = Friendly) <=> c = <<"resolve", "alliance">>
           /\ (~hit /\ tp_last'.label.kind \in {"SIN HISTORIAL PVP", "PERFIL"})
                <=> c = <<"resolve", "alliance", "zkill">>]_vars

\* a second call ended in NoHistory after one request to each collaborator,
\* and the call before it had left nothing in the cache either
C24_Witness ==
  /\ tp_count = 2
  /\ tp_last.label = NoHistory
  /\ tp_last.calls = <<"resolve", "alliance", "zkill">>
  /\ tp_cache = <<>>
  /\ tp_given = <<>>

(* ----------------------- claims on stopping the tailer ------------------ *)
\* C25: once the tailing loop has been stopped, by an interrupt of watch or
\* by the stop flag of the worker, no file object of active_log_files is
\* open.
C25_ClosedOnStop == tl_pc = "stopped" => (OpenHandles = {} /\ tl_opens = 0)

\* C26: with two passes running on the same Cartographer, neither fails
\* because of the other's cache insertions, the cache file holds a whole
\* document whenever no save is under way, and after a save every entry of
\* the file is the complete record the cache holds for that system
C26_LastWriterWins ==
  /\ cpc # "raised"
  /\ (cpc # "saving" => file_whole)
  /\ (cpc = "idle" /\ writes > 0 =>
        /\ DOMAIN cache_file \subseteq DOMAIN system_cache
        /\ \A k \in DOMAIN cache_file : cache_file[k] = system_cache[k])

\* C27: a failure to read or to write the file of a persistent store is
\* absorbed by the operation that met it: add_bridge, remove_bridge and the
\* load of a new session return to their caller without an exception, and a
\* load that failed leaves the store empty, as a missing file does
C27_NeverFatal ==
  /\ store_error = "none"
  /\ (last_op.op = "load" => bridges \in {<<>>, LoadBridges(jb_file)})

(* ------------------- claims on the cooldown entry ----------------------- *)
\* C28: a call that is not friendly, has a hop distance below 10 and is not
\* in cooldown sets the cooldown entry of its key to its clock reading before
\* it classifies, with the queue still untouched; classification leaves the
\* entry as it is, and for a hop distance without a tier it enqueues nothing;
\* a call that finds its key inside the window of such an entry is rejected.
C28_TouchedFirst ==
  [][\A p \in Producers :
       ppc'[p] # ppc[p] =>
         CASE ppc[p] = "L47" ->
                LET entry == Get(cooldown_cache, args[p].system, 0)
                IN IF ppc'[p] = "L54"
                   THEN /\ current_time[p] - entry >= COOLDOWN_SECONDS
                        /\ cooldown_cache' = Put(cooldown_cache, args[p].system,
                                                 current_time[p])
                        /\ message_queue' = message_queue
                   ELSE /\ current_time[p] - entry < COOLDOWN_SECONDS
                        /\ last_outcome' = "cooldown"
                        /\ message_queue' = message_queue
           [] ppc[p] = "L54" ->
                /\ cooldown_cache' = cooldown_cache
                /\ Get(cooldown_cache, args[p].system, 0) = current_time[p]
                /\ (args[p].jumps \notin 0..9
                    => message_queue' = message_queue /\ enqueued' = enqueued)
           [] OTHER -> TRUE]_vars

\* one call passed the filters and enqueued nothing, and the next call for
\* its key was rejected by the cooldown it had started
C28_Witness ==
  /\ passed = 1
  /\ enqueued = <<>>
  /\ last_outcome = "cooldown"
  /\ DOMAIN cooldown_cache # {}
  /\ \A p \in Producers : ppc[p] = "idle"

(* ------------------ claims on saving the node cache --------------------- *)
\* C29: no step of a pass before its end writes the cache file, whatever it
\* fetches; the step that ends the search loop is taken with the frontier
\* empty, and when the pass has cached a system the file does not hold, that
\* step writes the file once, with the whole cache; a pass never writes more
\* than once.
C29_SavedOnce ==
  [][/\ cpc' = "loop" => cache_file' = cache_file /\ writes' \in {0, writes}
     /\ (cpc = "loop" /\ cpc' = "idle") =>
          /\ queue = <<>>
          /\ writes = 0
          /\ writes' <= 1
          /\ DOMAIN system_cache # DOMAIN cache_file =>
               /\ writes' = 1
               /\ cache_file' = system_cache
               /\ system_cache' = system_cache]_vars

\* a pass that fetched three systems from ESI has returned its map, and the
\* file, written once, holds the three
C29_Witness ==
  /\ cpc = "idle"
  /\ passes = 1
  /\ writes = 1
  /\ Cardinality(DOMAIN result) = 3
  /\ Cardinality(DOMAIN cache_file) = 3
  /\ cache_file = system_cache

(* ------------------- claims on partly written lines --------------------- *)
\* the lines of a text that are closed by their newline, in order
RECURSIVE WholeLines(_, _)
WholeLines(text, pos) ==
  LET line == ReadLine(text, pos)
  IN IF line = <<>> \/ line[Len(line)] # "\n" THEN <<>>
     ELSE <<line>> \o WholeLines(text, pos + Len(line))

\* C30: the strings handed to the line handler are the newline-terminated
\* lines of the file, each handed over once and whole: a line whose newline
\* is not written yet is not handed over, neither its beginning now nor its
\* remainder later.
C30_WholeLinesOnly ==
  /\ Len(handled) <= Len(WholeLines(log_text, 0))
  /\ \A i \in DOMAIN handled : handled[i] = WholeLines(log_text, 0)[i]

(* ------------------- claims on the discovery tick ----------------------- *)
\* an iteration of the tailing loop ran in this step
Polled ==
  /\ tl_pc = "loop"
  /\ tl_pc' # "stopped"
  /\ UNCHANGED <<tl_files, tl_exists, tl_mtimes>>

\* C31: discovery runs at the latest in every tenth iteration of the tailing
\* loop; an iteration with discovery leaves every channel whose latest file
\* could be opened with a handle on that file; an iteration without discovery
\* leaves the handles as they were.
C31_SlowTick ==
  [][Polled =>
       /\ stale_polls' < REFRESH_EVERY
       /\ stale_polls' = 0 =>
            \A ch \in ChannelSet \ tl_failed' :
              LatestLog(tl_mtimes, ch) # NoFile =>
                /\ ch \in DOMAIN active_log_files'
                /\ active_log_files'[ch].path = LatestLog(tl_mtimes, ch)
       /\ stale_polls' # 0 =>
            /\ DOMAIN active_log_files' = DOMAIN active_log_files
            /\ \A ch \in DOMAIN active_log_files :
                 /\ active_log_files'[ch].path = active_log_files[ch].path
                 /\ active_log_files'[ch].closed = active_log_files[ch].closed]_vars

(* ------------------- claims on returned maps ---------------------------- *)
\* C32: while no new pass begins, no step changes the stargate list or the
\* bridge list of an entry of the map that get_local_map returned, whatever
\* is added to or removed from the bridge store.
C32_Frozen ==
  [][(cpc = "idle" /\ result # <<>> /\ passes' = passes) =>
       /\ DOMAIN result' = DOMAIN result
       /\ \A n \in DOMAIN result :
            /\ result'[n].stargates = result[n].stargates
            /\ result'[n].jump_bridges = result[n].jump_bridges]_vars

(* ------------------- claims on cached entries --------------------------- *)
\* C33: whatever requests failed, every entry of the node cache holds the
\* complete stargate list of its system; a system whose requests did not all
\* succeed has no entry.
C33_NoTruncatedEntry ==
  \A k \in DOMAIN system_cache :
    system_cache[k].connections = universe[ToInt(k)].stargates

(* ------------------- claims on rejected calls --------------------------- *)
\* C34: a call rejected by the cooldown filter changes neither the cooldown
\* entries nor the queue; the entry of a key is the clock reading of the
\* latest accepted call for it; and a call whose clock reading is
\* COOLDOWN_SECONDS or more above that entry is accepted, whatever calls were
\* rejected in between.
C34_FromLastAccepted ==
  [][/\ \A k \in Keys :
          IF k \in DOMAIN cooldown_cache'
          THEN cooldown_cache'[k] = IntTime(lastAcceptTick'[k])
          ELSE lastAcceptTick'[k] = -1
     /\ \A p \in Producers :
          (ppc[p] = "L47" /\ ppc'[p] # "L47") =>
            IF ppc'[p] = "idle"
            THEN /\ cooldown_cache' = cooldown_cache
                 /\ message_queue' = message_queue
                 /\ enqueued' = enqueued
                 /\ IntTime(tick[p]) - IntTime(lastAcceptTick[args[p].system])
                      < COOLDOWN_SECONDS
            ELSE /\ args[p].system \in DOMAIN cooldown_cache =>
                      IntTime(tick[p]) - IntTime(lastAcceptTick[args[p].system])
                        >= COOLDOWN_SECONDS
                 /\ lastAcceptTick'[args[p].system] = tick[p]]_vars

\* a call for a key was accepted and enqueued, the next one for it was
\* rejected, and a third one for it has passed the cooldown filter
C34_Witness ==
  /\ Len(enqueued) = 1
  /\ last_outcome = "cooldown"
  /\ ppc[1] = "L54"
  /\ args[1].system = enqueued[1].ins.system
  /\ current_time[1] - enqueued[1].stamp >= COOLDOWN_SECONDS

(* ------------------- claims on recorded distances ----------------------- *)
\* the systems that the entry of m in the map lists as neighbours
Listed(map, m) == Elems(map[m].stargates) \cup Elems(map[m].jump_bridges)

\* C35: in a returned map that is not empty the center is recorded at
\* distance 0; every other entry is recorded at a distance d > 0, is listed
\* as a neighbour by an entry recorded at d - 1 and by no entry recorded
\* below d - 1; and d is the length of the shortest path from the center
\* along the neighbour lists of the entries of the map.
C35_ShortestPath ==
  (Returned /\ result # <<>>) =>
    /\ center \in DOMAIN result
    /\ result[center].jumps = 0
    /\ \A n \in DOMAIN result \ {center} :
         LET d == result[n].jumps
         IN /\ d > 0
            /\ \E m \in DOMAIN result :
                 result[m].jumps = d - 1 /\ n \in Listed(result, m)
            /\ \A m \in DOMAIN result :
                 result[m].jumps < d - 1 => n \notin Listed(result, m)
            /\ n \in FetchedBall(result, center, d)
            /\ n \notin FetchedBall(result, center, d - 1)

\* on a universe with a cycle, a map of all four systems was returned, one
\* of them two hops away although a bridge or a second route leads to it
C35_Witness ==
  /\ Returned
  /\ Cardinality(DOMAIN result) = 4
  /\ universe[1].stargates = <<2, 3>>
  /\ \E n \in DOMAIN result :
       /\ result[n].jumps = 2
       /\ Cardinality({m \in DOMAIN result : n \in Listed(result, m)}) >= 2

(* ------------------- claims on passes over a warm cache ------------------ *)
\* C36: an iteration whose system is already in the cache adds nothing to
\* the cache, and a pass that ends with the cache equal to the cache file,
\* that is, a pass that added no entry, does not write the cache file.
C36_WrittenOnlyWhenGrown ==
  [][/\ (cpc = "loop" /\ queue # <<>> /\ Str(Head(queue)[1]) \in DOMAIN system_cache)
        => system_cache' = system_cache
     /\ (cpc = "loop" /\ cpc' = "idle" /\ system_cache = cache_file)
        => writes' = writes]_vars

(* ------------------- claims on the tag string ---------------------------- *)
\* C37: in the tag of a classified player no role tag stands twice, whatever
\* the three most-used vessels are, also when two or three of them are of
\* the same role.
C37_EachTagOnce ==
  (tp_last.calls # <<>> /\ tp_last.label.kind = "PERFIL") =>
    LET tags == tp_last.label.tag.tags
    IN \A i, j \in DOMAIN tags : tags[i] = tags[j] => i = j

(* ------------------- claims on the heuristic location -------------------- *)
\* C38: without known systems the system of a parsed line is either none or
\* a string that is not empty and, stripped of punctuation, is neither a
\* keyword nor the start of a link; a token made of punctuation only never
\* gives the empty string as the system.
C38_NeverEmpty ==
  (ps_pc = "done" /\ known_systems = {} /\ record.parsed) =>
    \/ record.system = NoSystem
    \/ /\ record.system # <<>>
       /\ Lower(StripPunct(record.system)) \notin INTEL_KEYWORDS
       /\ ~StartsWith(StripPunct(record.system), <<"h", "t", "t", "p">>)

(* ------------------- claims on delivery across a rotation ---------------- *)
\* C39: once watch is in its loop, every line that is appended to a log
\* file from then on (the write makes that file the latest of its channel)
\* is eventually handed to _process_new_line, also when the channel moves
\* to a newer file between two discovery passes.
C39_EveryLineDelivered ==
  \A p \in LogFiles : \A i \in 1..MaxLines :
    [](tl_pc = "loop" /\ tl_files[p] < i
         => [](tl_files[p] >= i => <>(<<ChannelOf(p), p, i>> \in delivered)))

====
